---- MODULE Spec2Model ----
(***************************************************************************)
(* Model of the chunk size optimizer of the ingestion pipeline             *)
(* (ASTChunker, ingestion/chunkers/ast_chunker.py) working on the chunk    *)
(* records the TypeScript parser produces (TypeScriptChunk).               *)
(*                                                                         *)
(* Chunk objects live in a heap (a sequence of records, an object's id is  *)
(* its index), lists hold ids: a chunk that is passed through is the same  *)
(* object in the input and in the output, a merged or expanded chunk is a  *)
(* new object.  Names are sequences of one-character strings, so that      *)
(* lower(), startswith(), slicing, rstrip() and `in` are computed as the   *)
(* code computes them.  A chunk_type is the sequence of the pieces its     *)
(* string is concatenated from (<<"function">>, <<"function","_group">>).  *)
(* Content is a sequence of segments: the text of a syntax node, a slice   *)
(* of the file's lines, or a newline.                                      *)
(***************************************************************************)
EXTENDS Integers, Sequences, FiniteSets, TLC

VARIABLES
    heap,           \* the chunk objects: heap[id] is the record of object id
    refs,           \* refs[id]: the collection object each field of id refers to
    chunks,         \* the argument of optimize_chunks: a list of ids
    orig,           \* the records of the input chunks when the call started
    total_lines,    \* file_path -> number of lines of the file on disk
    by_file,        \* the dict of optimize_chunks, in insertion order
    fidx,           \* position in by_file of the file being processed
    pc,             \* "start", "next_file", "scan", "done"
    i,              \* scan index of _optimize_file_chunks (0-based)
    consumed,       \* the consumed set of _optimize_file_chunks (0-based)
    file_optimized, \* the list `optimized` of _optimize_file_chunks
    file_prov,      \* for each element of file_optimized: how it was built
    optimized,      \* the list `optimized` of optimize_chunks
    prov,           \* for each element of optimized: how it was built
    warnings,       \* the 'Unconsumed indices' reports printed so far
    parse_file_path, \* the argument of parse_file: a path, as characters
    path_exists,    \* path.exists()
    root_node,      \* the root of the tree the tree-sitter parser returns
    parse_pc,       \* "call", "returned", or the exception parse_file raised
    parse_language, \* the local `language` of parse_file
    parse_chunks,   \* the list parse_file returns
    ts_files,       \* the files of the batch of the ingestion loop
    script,         \* which loop runs: "ingest_all" or "ingest_multi"
    file_idx,       \* position in ts_files of the file the loop is at
    all_chunks,     \* the list all_chunks of the ingestion loop
    successful,     \* its counters
    failed,
    skipped,
    errors,         \* the positions in ts_files whose iteration raised
    collection,     \* the entries of the store's collection: [id, document]
    issued,         \* every id _generate_id returned: [id, chunk, call]
    add_calls,      \* the number of add_chunks calls so far
    add_result      \* how the last add_chunks call ended

\* the state of the optimizer, of the parser and of the ingestion loop
optimizer_vars == <<heap, refs, chunks, orig, total_lines, by_file, fidx, pc, i, consumed,
                    file_optimized, file_prov, optimized, prov, warnings>>

parser_vars == <<parse_file_path, path_exists, root_node, parse_pc, parse_language,
                 parse_chunks>>

ingest_vars == <<ts_files, script, file_idx, all_chunks, successful, failed, skipped, errors>>

store_vars == <<collection, issued, add_calls, add_result>>

vars == <<optimizer_vars, parser_vars, ingest_vars, store_vars>>

----------------------------------------------------------------------------
(* Configuration: ChunkingConfig defaults and the literal gap of           *)
(* _should_merge.                                                          *)

MIN_CHUNK_SIZE == 15

MAX_CHUNK_SIZE == 100

MAX_MERGE_GAP == 5

----------------------------------------------------------------------------
(* Integer and sequence helpers.                                           *)

Min(a, b) == IF a < b THEN a ELSE b

Max(a, b) == IF a > b THEN a ELSE b

SetMax(S) == CHOOSE x \in S : \A y \in S : y <= x

Range(s) == {s[k] : k \in 1..Len(s)}

----------------------------------------------------------------------------
(* Python string operations on names (sequences of characters).            *)

UpperChars == <<"A","B","C","D","E","F","G","H","I","J","K","L","M",
                "N","O","P","Q","R","S","T","U","V","W","X","Y","Z">>

LowerChars == <<"a","b","c","d","e","f","g","h","i","j","k","l","m",
                "n","o","p","q","r","s","t","u","v","w","x","y","z">>

DigitChars == {"0","1","2","3","4","5","6","7","8","9"}

\* upper-case letter -> lower-case letter
LowerMap ==
    [u \in {UpperChars[k] : k \in 1..26} |->
        LowerChars[CHOOSE k \in 1..26 : UpperChars[k] = u]]

\* str.lower() on one character
LowerChar(c) == IF c \in DOMAIN LowerMap THEN LowerMap[c] ELSE c

\* str.lower()
Lower(s) == [k \in 1..Len(s) |-> LowerChar(s[k])]

\* str.startswith(p)
StartsWith(s, p) == Len(s) >= Len(p) /\ SubSeq(s, 1, Len(p)) = p

\* s[3:]
From3(s) == SubSeq(s, 4, Len(s))

\* s.rstrip('0123456789')
RStripDigits(s) ==
    LET keep == {k \in 1..Len(s) : s[k] \notin DigitChars}
    IN  IF keep = {} THEN <<>> ELSE SubSeq(s, 1, SetMax(keep))

\* needle in hay
Contains(hay, needle) ==
    \E k \in 0..(Len(hay) - Len(needle)) :
        SubSeq(hay, k + 1, k + Len(needle)) = needle

LifecyclePrefixes ==
    { <<"o","n">>, <<"h","a","n","d","l","e">>, <<"i","n","i","t">>,
      <<"u","p","d","a","t","e">>, <<"c","l","e","a","n","u","p">>,
      <<"d","e","s","t","r","o","y">> }

\* _are_related comparing the first name's remainder with the whole second name
AreRelated_NoSlice(name1, name2) ==
    LET name1_lower == Lower(name1)
        name2_lower == Lower(name2)
        get == <<"g","e","t">>
        set == <<"s","e","t">>
    IN  IF StartsWith(name1_lower, get) /\ StartsWith(name2_lower, set)
        THEN From3(name1_lower) = name2_lower
        ELSE IF StartsWith(name1_lower, set) /\ StartsWith(name2_lower, get)
        THEN From3(name1_lower) = name2_lower
        ELSE IF \E prefix \in LifecyclePrefixes :
                    StartsWith(name1_lower, prefix) /\ StartsWith(name2_lower, prefix)
        THEN TRUE
        ELSE \E name \in {name1_lower, name2_lower} :
                LET base == RStripDigits(name)
                IN  Contains(name1_lower, base) /\ Contains(name2_lower, base)

\* ASTChunker._are_related
AreRelated(name1, name2) ==
    LET name1_lower == Lower(name1)
        name2_lower == Lower(name2)
        get == <<"g","e","t">>
        set == <<"s","e","t">>
    IN  IF StartsWith(name1_lower, get) /\ StartsWith(name2_lower, set)
        THEN From3(name1_lower) = From3(name2_lower)
        ELSE IF StartsWith(name1_lower, set) /\ StartsWith(name2_lower, get)
        THEN From3(name1_lower) = From3(name2_lower)
        ELSE IF \E prefix \in LifecyclePrefixes :
                    StartsWith(name1_lower, prefix) /\ StartsWith(name2_lower, prefix)
        THEN TRUE
        ELSE \E name \in {name1_lower, name2_lower} :
                LET base == RStripDigits(name)
                IN  Contains(name1_lower, base) /\ Contains(name2_lower, base)

----------------------------------------------------------------------------
(* Chunks.                                                                 *)

None == "None"

Size(c) == c.end_line - c.start_line + 1

\* the text of the syntax node a parser chunk was cut from
NodeText(s, e) == <<[kind |-> "node", from |-> s, to |-> e]>>

\* ''.join(lines[a:b]) for a file of `total` lines, 0 <= a, 0 <= b
JoinLines(total, a, b) ==
    LET hi == Min(b, total)
    IN  IF a < hi THEN <<[kind |-> "lines", from |-> a + 1, to |-> hi]>> ELSE <<>>

Newline == <<[kind |-> "nl", from |-> 0, to |-> 0]>>

\* TypeScriptChunk(...) with the keyword arguments the optimizer passes; every
\* other field takes its dataclass default
NewChunk(content, chunk_type, name, start_line, end_line, file_path, language, imports) ==
    [ content         |-> content,
      chunk_type      |-> chunk_type,
      name            |-> name,
      start_line      |-> start_line,
      end_line        |-> end_line,
      file_path       |-> file_path,
      language        |-> language,
      class_name      |-> None,
      imports         |-> imports,
      calls           |-> {},
      extends         |-> {},
      implements      |-> {},
      uses_types      |-> {},
      ecs_component   |-> FALSE,
      ecs_system      |-> FALSE,
      webxr_api_usage |-> {},
      three_js_usage  |-> {},
      semantic_labels |-> {},
      metadata        |-> <<>> ]

\* _should_merge without the check of the combined size
ShouldMerge_NoSizeCheck(chunk1, chunk2) ==
    LET gap == chunk2.start_line - chunk1.end_line
    IN  IF chunk1.file_path # chunk2.file_path THEN FALSE
        ELSE IF gap > MAX_MERGE_GAP THEN FALSE
        ELSE IF /\ chunk1.chunk_type = chunk2.chunk_type
                /\ \/ AreRelated(chunk1.name, chunk2.name)
                   \/ /\ chunk1.chunk_type = <<"function">>
                      /\ chunk1.class_name = chunk2.class_name
        THEN TRUE
        ELSE /\ chunk1.chunk_type \in {<<"interface">>, <<"type">>}
             /\ chunk2.chunk_type \in {<<"interface">>, <<"type">>}

\* _should_merge without the check of the gap
ShouldMerge_NoGapCheck(chunk1, chunk2) ==
    LET combined_size == chunk2.end_line - chunk1.start_line + 1
    IN  IF chunk1.file_path # chunk2.file_path THEN FALSE
        ELSE IF combined_size > MAX_CHUNK_SIZE THEN FALSE
        ELSE IF /\ chunk1.chunk_type = chunk2.chunk_type
                /\ \/ AreRelated(chunk1.name, chunk2.name)
                   \/ /\ chunk1.chunk_type = <<"function">>
                      /\ chunk1.class_name = chunk2.class_name
        THEN TRUE
        ELSE /\ chunk1.chunk_type \in {<<"interface">>, <<"type">>}
             /\ chunk2.chunk_type \in {<<"interface">>, <<"type">>}

\* ASTChunker._should_merge
ShouldMerge(chunk1, chunk2) ==
    LET gap == chunk2.start_line - chunk1.end_line
        combined_size == chunk2.end_line - chunk1.start_line + 1
    IN  IF chunk1.file_path # chunk2.file_path THEN FALSE
        ELSE IF gap > MAX_MERGE_GAP THEN FALSE
        ELSE IF combined_size > MAX_CHUNK_SIZE THEN FALSE
        ELSE IF /\ chunk1.chunk_type = chunk2.chunk_type
                /\ \/ AreRelated(chunk1.name, chunk2.name)
                   \/ /\ chunk1.chunk_type = <<"function">>
                      /\ chunk1.class_name = chunk2.class_name
        THEN TRUE
        ELSE /\ chunk1.chunk_type \in {<<"interface">>, <<"type">>}
             /\ chunk2.chunk_type \in {<<"interface">>, <<"type">>}

\* the lists list(set(xs)) can be: the elements of xs once each, in any order
ListsOfSet(S) ==
    {s \in [1..Cardinality(S) -> S] : \A x \in S : \E k \in 1..Cardinality(S) : s[k] = x}

\* _merge_chunks whose fallback keeps the content of the first chunk alone
MergedChunk_FallbackFirstOnly(first, second, file_ok, total, imps) ==
    LET merged_content ==
            IF file_ok
            THEN JoinLines(total, first.start_line - 1, second.end_line)
            ELSE first.content
        merged == NewChunk(merged_content,
                           first.chunk_type \o <<"_group">>,
                           first.name \o <<"_","a","n","d","_">> \o second.name,
                           first.start_line,
                           second.end_line,
                           first.file_path,
                           first.language,
                           imps)
    IN  [merged EXCEPT
            !.calls           = first.calls \cup second.calls,
            !.extends         = first.extends \cup second.extends,
            !.implements      = first.implements \cup second.implements,
            !.uses_types      = first.uses_types \cup second.uses_types,
            !.semantic_labels = (first.semantic_labels \cup second.semantic_labels)
                                    \cup {"merged_chunk"},
            !.ecs_component   = first.ecs_component \/ second.ecs_component,
            !.ecs_system      = first.ecs_system \/ second.ecs_system,
            !.webxr_api_usage = first.webxr_api_usage \cup second.webxr_api_usage,
            !.three_js_usage  = first.three_js_usage \cup second.three_js_usage,
            !.metadata        = <<2, <<first.name, second.name>> >> ]

\* ASTChunker._merge_chunks from the construction of the merged chunk on:
\* first and second are the two chunks in the order _merge_chunks put them
\* in; file_ok: the file could be read; total: its number of lines; imps:
\* the order list(set(...)) gave the imports
MergedChunk(first, second, file_ok, total, imps) ==
    LET merged_content ==
            IF file_ok
            THEN JoinLines(total, first.start_line - 1, second.end_line)
            ELSE first.content \o Newline \o second.content
        merged == NewChunk(merged_content,
                           first.chunk_type \o <<"_group">>,
                           first.name \o <<"_","a","n","d","_">> \o second.name,
                           first.start_line,
                           second.end_line,
                           first.file_path,
                           first.language,
                           imps)
    IN  [merged EXCEPT
            !.calls           = first.calls \cup second.calls,
            !.extends         = first.extends \cup second.extends,
            !.implements      = first.implements \cup second.implements,
            !.uses_types      = first.uses_types \cup second.uses_types,
            !.semantic_labels = (first.semantic_labels \cup second.semantic_labels)
                                    \cup {"merged_chunk"},
            !.ecs_component   = first.ecs_component \/ second.ecs_component,
            !.ecs_system      = first.ecs_system \/ second.ecs_system,
            !.webxr_api_usage = first.webxr_api_usage \cup second.webxr_api_usage,
            !.three_js_usage  = first.three_js_usage \cup second.three_js_usage,
            !.metadata        = <<2, <<first.name, second.name>> >> ]

\* _merge_chunks ending the merged chunk where the first chunk ends
MergeChunks_EndOfFirst(chunk1, chunk2, file_ok, total, imps) ==
    LET first  == IF chunk1.start_line < chunk2.start_line THEN chunk1 ELSE chunk2
        second == IF chunk1.start_line < chunk2.start_line THEN chunk2 ELSE chunk1
    IN  [MergedChunk(first, second, file_ok, total, imps)
            EXCEPT !.end_line = first.end_line]

\* _merge_chunks taking ecs_system from the first chunk alone
MergeChunks_FlagOfFirst(chunk1, chunk2, file_ok, total, imps) ==
    LET first  == IF chunk1.start_line < chunk2.start_line THEN chunk1 ELSE chunk2
        second == IF chunk1.start_line < chunk2.start_line THEN chunk2 ELSE chunk1
    IN  [MergedChunk(first, second, file_ok, total, imps)
            EXCEPT !.ecs_system = first.ecs_system]

\* ASTChunker._merge_chunks: the two chunks are ordered by start_line
MergeChunks(chunk1, chunk2, file_ok, total, imps) ==
    LET first  == IF chunk1.start_line < chunk2.start_line THEN chunk1 ELSE chunk2
        second == IF chunk1.start_line < chunk2.start_line THEN chunk2 ELSE chunk1
    IN  MergedChunk(first, second, file_ok, total, imps)

\* the import orders _merge_chunks can produce for a pair
MergedImports(chunk1, chunk2) == ListsOfSet(Range(chunk1.imports \o chunk2.imports))

\* ASTChunker._expand_with_context from the construction of the expanded
\* chunk on, for the new range new_start..new_end
ExpandedChunk(chunk, total, new_start, new_end) ==
    LET expanded == NewChunk(JoinLines(total, new_start - 1, new_end),
                             chunk.chunk_type,
                             chunk.name,
                             new_start,
                             new_end,
                             chunk.file_path,
                             chunk.language,
                             chunk.imports)
    IN  [expanded EXCEPT
            !.calls           = chunk.calls,
            !.extends         = chunk.extends,
            !.implements      = chunk.implements,
            !.uses_types      = chunk.uses_types,
            !.semantic_labels = chunk.semantic_labels \cup {"expanded_context"},
            !.ecs_component   = chunk.ecs_component,
            !.ecs_system      = chunk.ecs_system,
            !.webxr_api_usage = chunk.webxr_api_usage,
            !.three_js_usage  = chunk.three_js_usage ]

\* _expand_with_context without the max(1, ...) at the start of the file
ExpandWithContext_NoClip(chunk, total) ==
    LET current_size  == chunk.end_line - chunk.start_line + 1
        needed        == MIN_CHUNK_SIZE - current_size
        expand_before == needed \div 2
        expand_after  == needed - expand_before
    IN  ExpandedChunk(chunk, total, chunk.start_line - expand_before,
                      Min(total, chunk.end_line + expand_after))

\* _expand_with_context without the min(total_lines, ...) at the end of the file
ExpandWithContext_NoEndClip(chunk, total) ==
    LET current_size  == chunk.end_line - chunk.start_line + 1
        needed        == MIN_CHUNK_SIZE - current_size
        expand_before == needed \div 2
        expand_after  == needed - expand_before
    IN  ExpandedChunk(chunk, total, Max(1, chunk.start_line - expand_before),
                      chunk.end_line + expand_after)

\* _expand_with_context without the copy of calls
ExpandWithContext_NoCalls(chunk, total) ==
    LET current_size  == chunk.end_line - chunk.start_line + 1
        needed        == MIN_CHUNK_SIZE - current_size
        expand_before == needed \div 2
        expand_after  == needed - expand_before
        new_start     == Max(1, chunk.start_line - expand_before)
        new_end       == Min(total, chunk.end_line + expand_after)
    IN  [ExpandedChunk(chunk, total, new_start, new_end) EXCEPT !.calls = {}]

\* ASTChunker._expand_with_context when the file was read (total: its number
\* of lines): the new chunk
ExpandWithContext(chunk, total) ==
    LET current_size  == chunk.end_line - chunk.start_line + 1
        needed        == MIN_CHUNK_SIZE - current_size
        expand_before == needed \div 2
        expand_after  == needed - expand_before
        new_start     == Max(1, chunk.start_line - expand_before)
        new_end       == Min(total, chunk.end_line + expand_after)
    IN  ExpandedChunk(chunk, total, new_start, new_end)

\* The mutable collections of a chunk are objects of their own: the
\* collection object a field of a chunk refers to is named by the chunk it
\* was built for and the field.
CollectionFields ==
    {"imports", "calls", "extends", "implements", "uses_types",
     "webxr_api_usage", "three_js_usage", "semantic_labels"}

\* a chunk all of whose fields refer to collections built for it
OwnCollections(id) == [f \in CollectionFields |-> <<id, f>>]

\* _merge_chunks: list(set(...)) and every `|` build a new collection
MergedRefs(id) == OwnCollections(id)

\* _expand_with_context: imports=chunk.imports and the assignments
\* expanded.calls = chunk.calls, ... hand over the collections of chunk;
\* chunk.semantic_labels | {...} builds a new set
ExpandedRefs(chunk_refs, id) ==
    [f \in CollectionFields |->
        IF f = "semantic_labels" THEN <<id, f>> ELSE chunk_refs[f]]

\* the heap after chunk.f.add(x) (f.append(x) for the list imports) on the
\* object id: every chunk whose field f refers to the same collection sees it
\* an addition that reaches the collection of every chunk (one collection
\* object shared by all chunks)
AddTo_SharedByAll(h, r, id, f, x) ==
    [j \in 1..Len(h) |->
        IF f = "imports" THEN [h[j] EXCEPT ![f] = Append(@, x)]
                         ELSE [h[j] EXCEPT ![f] = @ \cup {x}]]

AddTo(h, r, id, f, x) ==
    [j \in 1..Len(h) |->
        IF r[j][f] = r[id][f]
        THEN IF f = "imports" THEN [h[j] EXCEPT ![f] = Append(@, x)]
                              ELSE [h[j] EXCEPT ![f] = @ \cup {x}]
        ELSE h[j]]

----------------------------------------------------------------------------
(* optimize_chunks: grouping and sorting.                                  *)

\* the loop that fills by_file: a file_path enters the dict when its first
\* chunk is seen, every chunk is appended to its file's list
RECURSIVE GroupByFile(_, _, _)
GroupByFile(h, ids, acc) ==
    IF ids = <<>> THEN acc
    ELSE LET c == Head(ids)
             f == h[c].file_path
         IN  IF \E k \in 1..Len(acc) : acc[k].file_path = f
             THEN GroupByFile(h, Tail(ids),
                      [k \in 1..Len(acc) |->
                          IF acc[k].file_path = f
                          THEN [acc[k] EXCEPT !.file_chunks = Append(@, c)]
                          ELSE acc[k]])
             ELSE GroupByFile(h, Tail(ids),
                      Append(acc, [file_path |-> f, file_chunks |-> <<c>>]))

\* a sort that is not stable: of chunks that start on the same line the
\* later one comes first
RECURSIVE SortByStartLine_Unstable(_, _)
SortByStartLine_Unstable(h, ids) ==
    IF ids = <<>> THEN <<>>
    ELSE LET n      == Len(ids)
             c      == ids[n]
             sorted == SortByStartLine_Unstable(h, SubSeq(ids, 1, n - 1))
             k      == Cardinality({j \in 1..(n - 1) :
                                        h[sorted[j]].start_line < h[c].start_line})
         IN  SubSeq(sorted, 1, k) \o <<c>> \o SubSeq(sorted, k + 1, n - 1)

\* the list left in the order of the input
SortByStartLine_InputOrder(h, ids) == ids

\* a sort by start_line, descending
RECURSIVE SortByStartLine_Descending(_, _)
SortByStartLine_Descending(h, ids) ==
    IF ids = <<>> THEN <<>>
    ELSE LET n      == Len(ids)
             c      == ids[n]
             sorted == SortByStartLine_Descending(h, SubSeq(ids, 1, n - 1))
             k      == Cardinality({j \in 1..(n - 1) :
                                        h[sorted[j]].start_line >= h[c].start_line})
         IN  SubSeq(sorted, 1, k) \o <<c>> \o SubSeq(sorted, k + 1, n - 1)

\* list.sort(key=lambda c: c.start_line): stable, ascending
RECURSIVE SortByStartLine(_, _)
SortByStartLine(h, ids) ==
    IF ids = <<>> THEN <<>>
    ELSE LET n      == Len(ids)
             c      == ids[n]
             sorted == SortByStartLine(h, SubSeq(ids, 1, n - 1))
             k      == Cardinality({j \in 1..(n - 1) :
                                        h[sorted[j]].start_line <= h[c].start_line})
         IN  SubSeq(sorted, 1, k) \o <<c>> \o SubSeq(sorted, k + 1, n - 1)

\* the list _optimize_file_chunks is working on
FileChunks == by_file[fidx].file_chunks

\* chunks[k] of _optimize_file_chunks, k 0-based
ChunkAt(k) == heap[FileChunks[k + 1]]

\* _try_merge_small_chunk reporting only the scanned index as consumed
TryMergeSmallChunk_OneConsumed(h, file_chunks, index, cons) ==
    IF /\ index < Len(file_chunks) - 1
       /\ (index + 1) \notin cons
       /\ ShouldMerge(h[file_chunks[index + 1]], h[file_chunks[index + 2]])
    THEN <<index, index + 1, {index}>>
    ELSE IF /\ index > 0
            /\ (index - 1) \notin cons
            /\ ShouldMerge(h[file_chunks[index]], h[file_chunks[index + 1]])
    THEN <<index - 1, index, {index}>>
    ELSE <<>>

\* _try_merge_small_chunk without the attempt on the next chunk
TryMergeSmallChunk_PreviousOnly(h, file_chunks, index, cons) ==
    IF /\ index > 0
       /\ (index - 1) \notin cons
       /\ ShouldMerge(h[file_chunks[index]], h[file_chunks[index + 1]])
    THEN <<index - 1, index, {index - 1, index}>>
    ELSE <<>>

\* _try_merge_small_chunk making no attempt on the next chunk at index 0
TryMergeSmallChunk_NoForwardAtStart(h, file_chunks, index, cons) ==
    IF /\ index > 0
       /\ index < Len(file_chunks) - 1
       /\ (index + 1) \notin cons
       /\ ShouldMerge(h[file_chunks[index + 1]], h[file_chunks[index + 2]])
    THEN <<index, index + 1, {index, index + 1}>>
    ELSE IF /\ index > 0
            /\ (index - 1) \notin cons
            /\ ShouldMerge(h[file_chunks[index]], h[file_chunks[index + 1]])
    THEN <<index - 1, index, {index - 1, index}>>
    ELSE <<>>

\* ASTChunker._try_merge_small_chunk up to the call of _merge_chunks:
\* <<index of chunk1, index of chunk2, consumed_indices>>, or <<>> for None
TryMergeSmallChunk(h, file_chunks, index, cons) ==
    IF /\ index < Len(file_chunks) - 1
       /\ (index + 1) \notin cons
       /\ ShouldMerge(h[file_chunks[index + 1]], h[file_chunks[index + 2]])
    THEN <<index, index + 1, {index, index + 1}>>
    ELSE IF /\ index > 0
            /\ (index - 1) \notin cons
            /\ ShouldMerge(h[file_chunks[index]], h[file_chunks[index + 1]])
    THEN <<index - 1, index, {index - 1, index}>>
    ELSE <<>>

\* ASTChunker._optimize_file_chunks from index idx on, with consumed set
\* cons: what the loop does with the chunks of the sorted list file_chunks,
\* as a list of [kind, src] (src: the ids the output chunk is built from)
RECURSIVE OptimizeFileChunks(_, _, _, _)
OptimizeFileChunks(h, file_chunks, idx, cons) ==
    IF idx >= Len(file_chunks) THEN <<>>
    ELSE IF idx \in cons THEN OptimizeFileChunks(h, file_chunks, idx + 1, cons)
    ELSE LET chunk      == h[file_chunks[idx + 1]]
             chunk_size == chunk.end_line - chunk.start_line + 1
             pair       == TryMergeSmallChunk(h, file_chunks, idx, cons)
         IN  IF chunk_size < MIN_CHUNK_SIZE
             THEN IF pair # <<>>
                  THEN <<[kind |-> "merged",
                          src |-> <<file_chunks[pair[1] + 1], file_chunks[pair[2] + 1]>>]>>
                       \o OptimizeFileChunks(h, file_chunks, idx + 1, cons \cup pair[3])
                  ELSE <<[kind |-> "expanded", src |-> <<file_chunks[idx + 1]>>]>>
                       \o OptimizeFileChunks(h, file_chunks, idx + 1, cons)
             ELSE IF chunk_size > MAX_CHUNK_SIZE
             THEN <<[kind |-> "large", src |-> <<file_chunks[idx + 1]>>]>>
                  \o OptimizeFileChunks(h, file_chunks, idx + 1, cons \cup {idx})
             ELSE <<[kind |-> "perfect", src |-> <<file_chunks[idx + 1]>>]>>
                  \o OptimizeFileChunks(h, file_chunks, idx + 1, cons \cup {idx})

\* the chunk _optimize_file_chunks appends for the step d = [kind, src]:
\* file_ok: the file could be read, total: its number of lines, imps: the
\* order list(set(...)) gave the imports of a merged chunk
OutputChunk(h, d, file_ok, total, imps) ==
    IF d.kind = "merged"
    THEN MergeChunks(h[d.src[1]], h[d.src[2]], file_ok, total, imps)
    ELSE IF d.kind = "expanded"
    THEN IF file_ok THEN ExpandWithContext(h[d.src[1]], total) ELSE h[d.src[1]]
    ELSE IF d.kind = "large"
    THEN [h[d.src[1]] EXCEPT !.semantic_labels = @ \cup {"large_chunk"}]
    ELSE h[d.src[1]]

----------------------------------------------------------------------------
(* Inputs.                                                                 *)

\* the largest number of chunks in one call
MaxChunks == 3

Files == {"a.ts", "b.ts"}

getX == <<"g","e","t","X">>

setX == <<"s","e","t","X">>

\* Line ranges, chunk types and names of the chunks of the two files in the
\* runs of Spec.  a.ts: two small chunks 2 lines apart, two chunks of the
\* right size, and a chunk of 101 lines that starts 2 lines after the second
\* small chunk; b.ts: a small chunk at the start of the file and a chunk of
\* the right size that overlaps it.
GeomsA == { <<10, 14>>, <<16, 19>>, <<21, 40>>, <<45, 60>>, <<21, 121>> }

KindsA == { <<"function", getX>>, <<"class", setX>> }

GeomsB == { <<1, 5>>, <<3, 20>> }

KindsB == { <<"class", getX>> }

Pool == ({"a.ts"} \X GeomsA \X KindsA) \cup ({"b.ts"} \X GeomsB \X KindsB)

\* Line ranges, chunk types and names of the chunks in the runs of PairSpec
\* (at most two chunks): ranges that are apart, adjacent, overlapping,
\* nested, that start on the same line, and combined sizes of 100 and 101.
PairGeoms == { <<1, 5>>, <<10, 14>>, <<12, 13>>, <<16, 19>>, <<20, 24>>,
               <<10, 30>>, <<16, 109>>, <<16, 110>>, <<20, 120>> }

PairKinds == { <<"function", getX>>, <<"function", setX>>, <<"function", <<"B","a","r">> >>,
               <<"class", getX>>, <<"class", setX>>, <<"class", <<"B","a","r">> >>,
               <<"class", <<"B","a","r","2">> >>,
               <<"interface", <<"I","F","o","o">> >>, <<"type", <<"T","B","a","r">> >> }

PairPool == Files \X PairGeoms \X PairKinds

\* lines of a file after the end of its last chunk
Slacks == {0, 10}

PairSlacks == {0, 3, 10}

\* what the parser's detectors found in a chunk; the chunk at position j of
\* the input carries Profiles[j] (cyclically)
Profiles ==
    << [ imports |-> <<"import A">>, calls |-> {"f"}, extends |-> {"Base"},
         implements |-> {}, uses_types |-> {"T"}, ecs_component |-> TRUE,
         ecs_system |-> FALSE, webxr_api_usage |-> {"XRSession"},
         three_js_usage |-> {}, semantic_labels |-> {"ecs_component", "webxr_api"} ],
       [ imports |-> <<"import A", "import B">>, calls |-> {"f", "g"}, extends |-> {},
         implements |-> {"I"}, uses_types |-> {"U"}, ecs_component |-> FALSE,
         ecs_system |-> TRUE, webxr_api_usage |-> {},
         three_js_usage |-> {"Scene"}, semantic_labels |-> {"ecs_system", "threejs_usage"} ],
       [ imports |-> <<>>, calls |-> {}, extends |-> {"Other"},
         implements |-> {"J"}, uses_types |-> {}, ecs_component |-> FALSE,
         ecs_system |-> FALSE, webxr_api_usage |-> {"XRFrame"},
         three_js_usage |-> {"Mesh"}, semantic_labels |-> {} ] >>

\* a chunk as parse_file builds it
ParsedChunk(f, g, k, p) ==
    [ NewChunk(NodeText(g[1], g[2]), <<k[1]>>, k[2], g[1], g[2], f, "typescript", p.imports)
      EXCEPT !.calls = p.calls, !.extends = p.extends, !.implements = p.implements,
             !.uses_types = p.uses_types, !.ecs_component = p.ecs_component,
             !.ecs_system = p.ecs_system, !.webxr_api_usage = p.webxr_api_usage,
             !.three_js_usage = p.three_js_usage, !.semantic_labels = p.semantic_labels ]

\* the last line any chunk of file f ends on (0: no chunk)
LastLine(h, f) == SetMax({0} \cup {h[k].end_line : k \in {j \in 1..Len(h) : h[j].file_path = f}})

\* parse_file is not running
ParserIdle ==
    /\ parse_file_path = <<>>
    /\ path_exists = FALSE
    /\ root_node = <<>>
    /\ parse_pc = "idle"
    /\ parse_language = None
    /\ parse_chunks = <<>>

\* the ingestion loop is not running
IngestIdle ==
    /\ ts_files = <<>>
    /\ script = None
    /\ file_idx = 0
    /\ all_chunks = <<>>
    /\ successful = 0
    /\ failed = 0
    /\ skipped = 0
    /\ errors = {}

\* nothing was added to the vector store
StoreIdle ==
    /\ collection = <<>>
    /\ issued = <<>>
    /\ add_calls = 0
    /\ add_result = None

\* optimize_chunks is called with the chunks sel[1], ..., sel[n]; every file
\* has `slack` more lines than its chunks need
CallWith(n, sel, slack) ==
    LET h == [j \in 1..n |->
                ParsedChunk(sel[j][1], sel[j][2], sel[j][3],
                            Profiles[((j - 1) % Len(Profiles)) + 1])]
    IN  /\ heap = h
        /\ refs = [j \in 1..n |-> OwnCollections(j)]
        /\ orig = h
        /\ chunks = [j \in 1..n |-> j]
        /\ total_lines = [f \in Files |-> LastLine(h, f) + slack]
        /\ by_file = <<>>
        /\ fidx = 0
        /\ pc = "start"
        /\ i = 0
        /\ consumed = {}
        /\ file_optimized = <<>>
        /\ file_prov = <<>>
        /\ optimized = <<>>
        /\ prov = <<>>
        /\ warnings = <<>>
        /\ ParserIdle
        /\ IngestIdle
        /\ StoreIdle

Init ==
    \E n \in 0..MaxChunks : \E sel \in [1..n -> Pool] : \E slack \in Slacks :
        CallWith(n, sel, slack)

\* at most two chunks, the first one of a.ts
InitPair ==
    \E n \in {0, 1, 2} : \E sel \in [1..n -> PairPool] : \E slack \in PairSlacks :
        /\ n > 0 => sel[1][1] = "a.ts"
        /\ CallWith(n, sel, slack)

\* Line ranges, chunk types and names of the chunks in the runs of ScanSpec
\* (three chunks of a.ts): a chunk of the right size, three small chunks 2
\* lines apart after it, and a chunk of 104 lines
ScanGeoms == { <<1, 20>>, <<22, 25>>, <<27, 30>>, <<32, 35>>, <<27, 130>> }

ScanKinds == { <<"class", getX>>, <<"class", setX>>, <<"function", <<"B","a","r">> >> }

ScanPool == {"a.ts"} \X ScanGeoms \X ScanKinds

ScanSlacks == {10}

\* no chunk, or three chunks of one file
InitScan ==
    \E n \in {0, 3} : \E sel \in [1..n -> ScanPool] : \E slack \in ScanSlacks :
        CallWith(n, sel, slack)

----------------------------------------------------------------------------
(* optimize_chunks and _optimize_file_chunks, one action per step.         *)

\* optimize_chunks on an empty list: the argument is returned
ReturnEmpty ==
    /\ UNCHANGED <<parser_vars, ingest_vars, store_vars>>
    /\ pc = "start"
    /\ chunks = <<>>
    /\ optimized' = chunks
    /\ pc' = "done"
    /\ UNCHANGED <<heap, refs, chunks, orig, total_lines, by_file, fidx, i, consumed,
                   file_optimized, file_prov, prov, warnings>>

\* optimize_chunks: the chunks are grouped by file_path
Group ==
    /\ UNCHANGED <<parser_vars, ingest_vars, store_vars>>
    /\ pc = "start"
    /\ chunks # <<>>
    /\ by_file' = GroupByFile(heap, chunks, <<>>)
    /\ fidx' = 1
    /\ pc' = "next_file"
    /\ UNCHANGED <<heap, refs, chunks, orig, total_lines, i, consumed,
                   file_optimized, file_prov, optimized, prov, warnings>>

\* _optimize_file_chunks starting with the consumed set the previous file left
BeginFile_KeepConsumed ==
    /\ UNCHANGED <<parser_vars, ingest_vars, store_vars>>
    /\ pc = "next_file"
    /\ fidx <= Len(by_file)
    /\ by_file' = [by_file EXCEPT ![fidx].file_chunks = SortByStartLine(heap, @)]
    /\ i' = 0
    /\ consumed' = consumed
    /\ file_optimized' = <<>>
    /\ file_prov' = <<>>
    /\ pc' = "scan"
    /\ UNCHANGED <<heap, refs, chunks, orig, total_lines, fidx, optimized, prov, warnings>>

\* optimize_chunks: the next file's list is sorted in place and
\* _optimize_file_chunks starts on it
BeginFile ==
    /\ UNCHANGED <<parser_vars, ingest_vars, store_vars>>
    /\ pc = "next_file"
    /\ fidx <= Len(by_file)
    /\ by_file' = [by_file EXCEPT ![fidx].file_chunks = SortByStartLine(heap, @)]
    /\ i' = 0
    /\ consumed' = {}
    /\ file_optimized' = <<>>
    /\ file_prov' = <<>>
    /\ pc' = "scan"
    /\ UNCHANGED <<heap, refs, chunks, orig, total_lines, fidx, optimized, prov, warnings>>

\* the loop stepping over the consumed index and the one after it
SkipConsumed_TwoSteps ==
    /\ UNCHANGED <<parser_vars, ingest_vars, store_vars>>
    /\ pc = "scan"
    /\ i < Len(FileChunks)
    /\ i \in consumed
    /\ i' = i + 2
    /\ UNCHANGED <<heap, refs, chunks, orig, total_lines, by_file, fidx, pc, consumed,
                   file_optimized, file_prov, optimized, prov, warnings>>

\* the loop of _optimize_file_chunks: index i was consumed by a merge
SkipConsumed ==
    /\ UNCHANGED <<parser_vars, ingest_vars, store_vars>>
    /\ pc = "scan"
    /\ i < Len(FileChunks)
    /\ i \in consumed
    /\ i' = i + 1
    /\ UNCHANGED <<heap, refs, chunks, orig, total_lines, by_file, fidx, pc, consumed,
                   file_optimized, file_prov, optimized, prov, warnings>>

\* Case 1: the chunk is too small: merged with a neighbour, or expanded
SmallChunk ==
    /\ UNCHANGED <<parser_vars, ingest_vars, store_vars>>
    /\ pc = "scan"
    /\ i < Len(FileChunks)
    /\ i \notin consumed
    /\ Size(ChunkAt(i)) < MIN_CHUNK_SIZE
    /\ LET chunk == ChunkAt(i)
           total == total_lines[chunk.file_path]
           pair  == TryMergeSmallChunk(heap, FileChunks, i, consumed)
       IN  \E file_ok \in BOOLEAN :
             IF pair # <<>>
             THEN \E imps \in MergedImports(ChunkAt(pair[1]), ChunkAt(pair[2])) :
                    /\ heap' = Append(heap, MergeChunks(ChunkAt(pair[1]), ChunkAt(pair[2]),
                                                        file_ok, total, imps))
                    /\ refs' = Append(refs, MergedRefs(Len(heap) + 1))
                    /\ file_optimized' = Append(file_optimized, Len(heap) + 1)
                    /\ file_prov' = Append(file_prov,
                          [kind |-> "merged", file_ok |-> file_ok,
                           src |-> <<FileChunks[pair[1] + 1], FileChunks[pair[2] + 1]>>])
                    /\ consumed' = consumed \cup pair[3]
             ELSE /\ IF file_ok
                     THEN /\ heap' = Append(heap, ExpandWithContext(chunk, total))
                          /\ refs' = Append(refs, ExpandedRefs(refs[FileChunks[i + 1]],
                                                               Len(heap) + 1))
                          /\ file_optimized' = Append(file_optimized, Len(heap) + 1)
                     ELSE /\ heap' = heap
                          /\ refs' = refs
                          /\ file_optimized' = Append(file_optimized, FileChunks[i + 1])
                  /\ file_prov' = Append(file_prov,
                          [kind |-> "expanded", file_ok |-> file_ok,
                           src |-> <<FileChunks[i + 1]>>])
                  /\ consumed' = consumed
    /\ i' = i + 1
    /\ UNCHANGED <<chunks, orig, total_lines, by_file, fidx, pc, optimized, prov, warnings>>

\* Case 2: the chunk is too large: labelled in place and kept
LargeChunk ==
    /\ UNCHANGED <<parser_vars, ingest_vars, store_vars>>
    /\ pc = "scan"
    /\ i < Len(FileChunks)
    /\ i \notin consumed
    /\ Size(ChunkAt(i)) >= MIN_CHUNK_SIZE
    /\ Size(ChunkAt(i)) > MAX_CHUNK_SIZE
    /\ heap' = AddTo(heap, refs, FileChunks[i + 1], "semantic_labels", "large_chunk")
    /\ file_optimized' = Append(file_optimized, FileChunks[i + 1])
    /\ file_prov' = Append(file_prov,
            [kind |-> "large", file_ok |-> TRUE, src |-> <<FileChunks[i + 1]>>])
    /\ consumed' = consumed \cup {i}
    /\ i' = i + 1
    /\ UNCHANGED <<refs, chunks, orig, total_lines, by_file, fidx, pc, optimized, prov, warnings>>

\* Case 3: the chunk has the right size: kept
PerfectChunk ==
    /\ UNCHANGED <<parser_vars, ingest_vars, store_vars>>
    /\ pc = "scan"
    /\ i < Len(FileChunks)
    /\ i \notin consumed
    /\ Size(ChunkAt(i)) >= MIN_CHUNK_SIZE
    /\ Size(ChunkAt(i)) <= MAX_CHUNK_SIZE
    /\ file_optimized' = Append(file_optimized, FileChunks[i + 1])
    /\ file_prov' = Append(file_prov,
            [kind |-> "perfect", file_ok |-> TRUE, src |-> <<FileChunks[i + 1]>>])
    /\ consumed' = consumed \cup {i}
    /\ i' = i + 1
    /\ UNCHANGED <<heap, refs, chunks, orig, total_lines, by_file, fidx, pc, optimized, prov, warnings>>

\* the indices the validation of _optimize_file_chunks reports
Unconsumed(n, cons) == (0..(n - 1)) \ cons

\* the loop of _optimize_file_chunks ended: validation, return, and
\* optimized.extend(file_optimized) in optimize_chunks
FinishFile ==
    /\ UNCHANGED <<parser_vars, ingest_vars, store_vars>>
    /\ pc = "scan"
    /\ i >= Len(FileChunks)
    /\ warnings' = IF Cardinality(consumed) # Len(FileChunks)
                   THEN Append(warnings, [file_path |-> by_file[fidx].file_path,
                                          unconsumed |-> Unconsumed(Len(FileChunks), consumed)])
                   ELSE warnings
    /\ optimized' = optimized \o file_optimized
    /\ prov' = prov \o file_prov
    /\ fidx' = fidx + 1
    /\ pc' = "next_file"
    /\ UNCHANGED <<heap, refs, chunks, orig, total_lines, by_file, i, consumed,
                   file_optimized, file_prov>>

\* optimize_chunks returns optimized
Return ==
    /\ UNCHANGED <<parser_vars, ingest_vars, store_vars>>
    /\ pc = "next_file"
    /\ fidx > Len(by_file)
    /\ pc' = "done"
    /\ UNCHANGED <<heap, refs, chunks, orig, total_lines, by_file, fidx, i, consumed,
                   file_optimized, file_prov, optimized, prov, warnings>>

Next ==
    \/ ReturnEmpty
    \/ Group
    \/ BeginFile
    \/ SkipConsumed
    \/ SmallChunk
    \/ LargeChunk
    \/ PerfectChunk
    \/ FinishFile
    \/ Return

Spec == Init /\ [][Next]_vars

PairSpec == InitPair /\ [][Next]_vars

ScanSpec == InitScan /\ [][Next]_vars

\* Line ranges, chunk types and names of the chunks in the runs of OrderSpec
\* (three chunks of a.ts): small chunks of one or two lines that follow one
\* another directly, a small chunk at the start of the file, a chunk of the
\* right size and one of 105 lines
OrderGeoms == { <<1, 3>>, <<10, 11>>, <<12, 13>>, <<14, 14>>, <<20, 40>>, <<16, 120>> }

OrderPool == {"a.ts"} \X OrderGeoms \X ScanKinds

\* no chunk, or three chunks of one file
InitOrder ==
    \E n \in {0, 3} : \E sel \in [1..n -> OrderPool] : CallWith(n, sel, 10)

OrderSpec == InitOrder /\ [][Next]_vars

\* the caller of optimize_chunks adds an element to a collection of a chunk
\* of the returned list that the merge path or the expand path built
AddToCollection ==
    /\ UNCHANGED <<parser_vars, ingest_vars, store_vars>>
    /\ pc = "done"
    /\ \E k \in 1..Len(optimized) : \E f \in CollectionFields :
            /\ optimized[k] > Len(orig)
            /\ heap' = AddTo(heap, refs, optimized[k], f, "added")
    /\ pc' = "used"
    /\ UNCHANGED <<refs, chunks, orig, total_lines, by_file, fidx, i, consumed,
                   file_optimized, file_prov, optimized, prov, warnings>>

UseNext == Next \/ AddToCollection

\* Line ranges, chunk types and names of the chunks in the runs of FairSpec:
\* a.ts with two small chunks 2 lines apart, a chunk of the right size and
\* one of 101 lines; b.ts with one small chunk
TermPool == ({"a.ts"} \X { <<10, 14>>, <<16, 19>>, <<21, 40>>, <<21, 121>> } \X KindsA)
                \cup ({"b.ts"} \X { <<1, 5>> } \X KindsB)

InitTerm ==
    \E n \in 0..MaxChunks : \E sel \in [1..n -> TermPool] : CallWith(n, sel, 10)

\* optimize_chunks, and what its caller does with the list it returns
UseSpec == InitTerm /\ [][UseNext]_vars

\* optimize_chunks runs to its end: a call that can take a step takes one
FairSpec == InitTerm /\ [][Next]_vars /\ WF_vars(Next)

----------------------------------------------------------------------------
(* The TypeScript parser (ingestion/parsers/typescript_parser.py).         *)
(*                                                                         *)
(* A syntax node is a record: type; text, the source text the node spans,  *)
(* as a sequence of pieces (tokens and blanks; a substring test on a text  *)
(* is a test on pieces, and the texts below are cut so that every string   *)
(* the parser looks for is a sequence of whole pieces); start_point and    *)
(* end_point, <<row, column>> with 0-based rows; children; fields, the     *)
(* position among the children of each named field (0: no such field);     *)
(* parent, <<>> for the root and else <<p>>, p the type, text and points   *)
(* of the parent node.                                                     *)

\* the optimizer is not running
OptimizerIdle ==
    /\ heap = <<>>
    /\ refs = <<>>
    /\ orig = <<>>
    /\ chunks = <<>>
    /\ total_lines = [f \in Files |-> 0]
    /\ by_file = <<>>
    /\ fidx = 0
    /\ pc = "idle"
    /\ i = 0
    /\ consumed = {}
    /\ file_optimized = <<>>
    /\ file_prov = <<>>
    /\ optimized = <<>>
    /\ prov = <<>>
    /\ warnings = <<>>

\* the last component of a path
PathName(path) ==
    LET slashes == {k \in 1..Len(path) : path[k] = "/"}
    IN  IF slashes = {} THEN path ELSE SubSeq(path, SetMax(slashes) + 1, Len(path))

\* a suffix that starts at the first dot of the name
Suffix_FirstDot(path) ==
    LET name == PathName(path)
        dots == {k \in 1..Len(name) : name[k] = "."}
    IN  IF dots = {} THEN <<>>
        ELSE LET d == CHOOSE k \in dots : \A l \in dots : k <= l
             IN  IF 1 < d /\ d < Len(name) THEN SubSeq(name, d, Len(name)) ELSE <<>>

\* Path(file_path).suffix: the name from its last dot on, when that dot is
\* neither the first nor the last character of the name; else ''
Suffix(path) ==
    LET name == PathName(path)
        dots == {k \in 1..Len(name) : name[k] = "."}
    IN  IF dots = {} THEN <<>>
        ELSE LET d == SetMax(dots)
             IN  IF 1 < d /\ d < Len(name) THEN SubSeq(name, d, Len(name)) ELSE <<>>

\* the language parse_file chooses for a suffix; None: ValueError
LanguageOf(suffix) ==
    IF suffix = <<".","t","s">> \/ suffix = <<".","t","s","x">> THEN "typescript"
    ELSE IF suffix = <<".","j","s">> \/ suffix = <<".","j","s","x">> THEN "javascript"
    ELSE None

\* node.child_by_field_name(field): <<>> for None, else <<child>>
ChildByFieldName(node, field) ==
    IF node.fields[field] = 0 THEN <<>> ELSE <<node.children[node.fields[field]]>>

\* _get_node_text of an optional node
GetNodeText(node) == IF node = <<>> THEN <<>> ELSE node[1].text

\* _find_nodes_by_type: the nodes of a type in the subtree of node, node
\* included, in pre-order
RECURSIVE FindNodesByType(_, _)
RECURSIVE FindNodesInAll(_, _)
FindNodesByType(node, node_type) ==
    (IF node.type = node_type THEN <<node>> ELSE <<>>)
        \o FindNodesInAll(node.children, node_type)

FindNodesInAll(nodes, node_type) ==
    IF Len(nodes) = 0 THEN <<>>
    ELSE FindNodesByType(Head(nodes), node_type) \o FindNodesInAll(Tail(nodes), node_type)

\* _find_top_level_functions over the children of the root
RECURSIVE TopLevelFunctionsOf(_)
TopLevelFunctionsOf(children) ==
    IF Len(children) = 0 THEN <<>>
    ELSE LET child == Head(children)
             IsFunctionDeclaration(n) == n.type = "function_declaration"
             found == IF child.type \in {"function_declaration", "function", "export_statement"}
                      THEN IF child.type = "export_statement"
                           THEN SelectSeq(child.children, IsFunctionDeclaration)
                           ELSE <<child>>
                      ELSE <<>>
         IN  found \o TopLevelFunctionsOf(Tail(children))

FindTopLevelFunctions(root) == TopLevelFunctionsOf(root.children)

\* _extract_imports
ExtractImports(root) ==
    LET nodes == FindNodesByType(root, "import_statement")
    IN  [k \in 1..Len(nodes) |-> nodes[k].text]

\* the calls _extract_function_calls adds: the callee texts of the call
\* expressions in the subtree of node
FunctionCalls(node) ==
    LET call_nodes == FindNodesByType(node, "call_expression")
    IN  { GetNodeText(ChildByFieldName(call_nodes[k], "function")) :
            k \in {j \in 1..Len(call_nodes) :
                        ChildByFieldName(call_nodes[j], "function") # <<>>} }

\* str.lower() on the pieces of the texts below
PieceLower ==
    [p \in {"Foo", "Bar", "Base", "Three", "Group", "IFoo", "IBar", "TBar", "Position",
            "Move", "System", "A", "createSystem", "createComponent", "XRSession"} |->
        CASE p = "Foo" -> "foo" [] p = "Bar" -> "bar" [] p = "Base" -> "base"
          [] p = "Three" -> "three" [] p = "Group" -> "group" [] p = "IFoo" -> "ifoo"
          [] p = "IBar" -> "ibar" [] p = "TBar" -> "tbar" [] p = "Position" -> "position"
          [] p = "Move" -> "move" [] p = "System" -> "system" [] p = "A" -> "a"
          [] p = "createSystem" -> "createsystem"
          [] p = "createComponent" -> "createcomponent"
          [] p = "XRSession" -> "xrsession"]

LowerText(text) ==
    [k \in 1..Len(text) |-> IF text[k] \in DOMAIN PieceLower THEN PieceLower[text[k]] ELSE text[k]]

\* _detect_ecs_patterns
DetectEcsPatterns(chunk) ==
    LET content      == LowerText(chunk.content)
        name         == LowerText(chunk.name)
        is_component == \/ Contains(content, <<"implements", " ", "component">>)
                        \/ Contains(content, <<"extends", " ", "componentbase">>)
        is_system    == \/ Contains(content, <<"extends", " ", "system">>)
                        \/ Contains(content, <<"implements", " ", "isystem">>)
                        \/ <<"createSystem">> \in chunk.extends
        specific     == IF Contains(name, <<"transform">>) THEN {"transform_component"}
                        ELSE IF Contains(name, <<"physics">>) THEN {"physics_component"}
                        ELSE {}
    IN  [chunk EXCEPT
            !.ecs_component   = @ \/ is_component,
            !.ecs_system      = @ \/ is_system,
            !.semantic_labels = ((@ \cup (IF is_component THEN {"ecs_component"} ELSE {}))
                                    \cup (IF is_system THEN {"ecs_system"} ELSE {}))
                                    \cup specific ]

WebxrApis ==
    { <<"XRSession">>, <<"XRFrame">>, <<"XRReferenceSpace">>, <<"XRViewerPose">>,
      <<"XRInputSource">>, <<"XRHand">>, <<"requestSession">>, <<"requestAnimationFrame">> }

ThreejsPatterns ==
    { <<"THREE", ".">>, <<"Scene">>, <<"Mesh">>, <<"Material">>, <<"Geometry">> }

\* _detect_webxr_patterns
DetectWebxrPatterns(chunk) ==
    LET apis     == {api \in WebxrApis : Contains(chunk.content, api)}
        patterns == {pattern \in ThreejsPatterns : Contains(chunk.content, pattern)}
    IN  [chunk EXCEPT
            !.webxr_api_usage = @ \cup apis,
            !.three_js_usage  = @ \cup patterns,
            !.semantic_labels = (@ \cup (IF apis # {} THEN {"webxr_api"} ELSE {}))
                                    \cup (IF patterns # {} THEN {"threejs_usage"} ELSE {}) ]

\* a call expression in an extends clause adding the text of the whole call
ExtendsOfChild_FullCall(child) ==
    IF child.type \in {"identifier", "type_identifier"} THEN {child.text}
    ELSE IF child.type = "call_expression" THEN {child.text}
    ELSE IF child.type = "member_expression" THEN {child.text}
    ELSE {}

\* what one child of an extends clause adds to chunk.extends in _parse_class
ExtendsOfChild(child) ==
    IF child.type \in {"identifier", "type_identifier"} THEN {child.text}
    ELSE IF child.type = "call_expression"
    THEN LET func_node == ChildByFieldName(child, "function")
         IN  IF func_node # <<>> THEN {GetNodeText(func_node)} ELSE {}
    ELSE IF child.type = "member_expression" THEN {child.text}
    ELSE {}

\* the texts of the nodes of type inner_type found in the subtrees of the
\* nodes of type outer_type found in the subtree of node
TextsWithin(node, outer_type, inner_type) ==
    LET outer == FindNodesByType(node, outer_type)
    IN  UNION { LET inner == FindNodesByType(outer[k], inner_type)
                IN  {inner[j].text : j \in 1..Len(inner)} : k \in 1..Len(outer) }

\* _parse_class
ParseClass(class_node, file_path, lang, imports) ==
    LET name_node  == ChildByFieldName(class_node, "name")
        class_name == IF name_node # <<>> THEN GetNodeText(name_node) ELSE <<"UnknownClass">>
        chunk      == NewChunk(class_node.text, <<"class">>, class_name,
                               class_node.start_point[1] + 1,
                               class_node.end_point[1] + 1,
                               file_path, lang, imports)
        heritage_nodes == FindNodesByType(class_node, "class_heritage")
        extends_nodes  == FindNodesInAll(
                            [k \in 1..Len(heritage_nodes) |-> heritage_nodes[k]],
                            "extends_clause")
        extends    == UNION { UNION { ExtendsOfChild(extends_nodes[k].children[j]) :
                                        j \in 1..Len(extends_nodes[k].children) } :
                                k \in 1..Len(extends_nodes) }
        implements == UNION { TextsWithin(heritage_nodes[k], "implements_clause",
                                          "type_identifier") :
                                k \in 1..Len(heritage_nodes) }
    IN  DetectWebxrPatterns(DetectEcsPatterns(
            [chunk EXCEPT !.extends = extends, !.implements = implements]))

\* _parse_function
ParseFunction(func_node, file_path, lang, imports) ==
    LET name_node == ChildByFieldName(func_node, "name")
        func_name == IF name_node # <<>> THEN GetNodeText(name_node) ELSE <<"anonymous">>
        chunk     == NewChunk(func_node.text, <<"function">>, func_name,
                              func_node.start_point[1] + 1,
                              func_node.end_point[1] + 1,
                              file_path, lang, imports)
    IN  DetectWebxrPatterns([chunk EXCEPT !.calls = FunctionCalls(func_node)])

\* _parse_interface
ParseInterface(interface_node, file_path, lang) ==
    LET name_node      == ChildByFieldName(interface_node, "name")
        interface_name == IF name_node # <<>> THEN GetNodeText(name_node)
                          ELSE <<"UnknownInterface">>
        chunk          == NewChunk(interface_node.text, <<"interface">>, interface_name,
                                   interface_node.start_point[1] + 1,
                                   interface_node.end_point[1] + 1,
                                   file_path, lang, <<>>)
    IN  [chunk EXCEPT !.extends = TextsWithin(interface_node, "extends_type_clause",
                                              "type_identifier")]

\* _parse_type_alias
ParseTypeAlias(type_node, file_path, lang) ==
    LET name_node == ChildByFieldName(type_node, "name")
        type_name == IF name_node # <<>> THEN GetNodeText(name_node) ELSE <<"UnknownType">>
    IN  NewChunk(type_node.text, <<"type">>, type_name,
                 type_node.start_point[1] + 1,
                 type_node.end_point[1] + 1,
                 file_path, lang, <<>>)

\* the body of the inner loop of _extract_ecs_factory_patterns for one
\* declarator found under var_statement: <<>> (continue) or <<chunk>>
EcsFactoryChunk(var_statement, declarator, file_path, lang, imports) ==
    LET name_node  == ChildByFieldName(declarator, "name")
        value_node == ChildByFieldName(declarator, "value")
    IN  IF name_node = <<>> THEN <<>>
        ELSE IF value_node = <<>> THEN <<>>
        ELSE IF value_node[1].type # "call_expression" THEN <<>>
        ELSE LET func_node == ChildByFieldName(value_node[1], "function")
             IN  IF func_node = <<>> THEN <<>>
                 ELSE LET func_name    == GetNodeText(func_node)
                          is_component == Contains(func_name, <<"createComponent">>)
                          is_system    == Contains(func_name, <<"createSystem">>)
                          parent       == var_statement.parent
                          exported     == IF parent # <<>>
                                          THEN parent[1].type = "export_statement"
                                          ELSE FALSE
                          content_text == IF exported THEN parent[1].text
                                          ELSE var_statement.text
                          start_point  == IF exported THEN parent[1].start_point
                                          ELSE var_statement.start_point
                          end_point    == IF exported THEN parent[1].end_point
                                          ELSE var_statement.end_point
                          chunk == NewChunk(content_text,
                                            <<IF is_component THEN "component" ELSE "system">>,
                                            GetNodeText(name_node),
                                            start_point[1] + 1,
                                            end_point[1] + 1,
                                            file_path, lang, imports)
                          marked == IF is_component
                                    THEN [chunk EXCEPT
                                            !.ecs_component = TRUE,
                                            !.semantic_labels = @ \cup {"ecs_component"},
                                            !.extends = @ \cup {<<"Component">>}]
                                    ELSE [chunk EXCEPT
                                            !.ecs_system = TRUE,
                                            !.semantic_labels = @ \cup {"ecs_system"},
                                            !.extends = @ \cup {<<"System">>}]
                      IN  IF ~(is_component \/ is_system) THEN <<>>
                          ELSE <<DetectWebxrPatterns(
                                    [marked EXCEPT !.calls = @ \cup FunctionCalls(value_node[1])])>>

RECURSIVE EcsChunksOfDeclarators(_, _, _, _, _)
EcsChunksOfDeclarators(var_statement, declarators, file_path, lang, imports) ==
    IF Len(declarators) = 0 THEN <<>>
    ELSE EcsFactoryChunk(var_statement, Head(declarators), file_path, lang, imports)
            \o EcsChunksOfDeclarators(var_statement, Tail(declarators), file_path, lang, imports)

RECURSIVE EcsChunksOfStatements(_, _, _, _)
EcsChunksOfStatements(var_statements, file_path, lang, imports) ==
    IF Len(var_statements) = 0 THEN <<>>
    ELSE EcsChunksOfDeclarators(Head(var_statements),
                                FindNodesByType(Head(var_statements), "variable_declarator"),
                                file_path, lang, imports)
            \o EcsChunksOfStatements(Tail(var_statements), file_path, lang, imports)

\* _extract_ecs_factory_patterns
ExtractEcsFactoryPatterns(root, file_path, lang, imports) ==
    EcsChunksOfStatements(FindNodesByType(root, "lexical_declaration"),
                          file_path, lang, imports)

\* parse_file from the extraction of the imports on: the list it returns
ParseFileChunks(root, file_path, lang) ==
    LET imports    == ExtractImports(root)
        classes    == FindNodesByType(root, "class_declaration")
        functions  == FindTopLevelFunctions(root)
        interfaces == FindNodesByType(root, "interface_declaration")
        types      == FindNodesByType(root, "type_alias_declaration")
    IN  [k \in 1..Len(classes) |-> ParseClass(classes[k], file_path, lang, imports)]
        \o [k \in 1..Len(functions) |-> ParseFunction(functions[k], file_path, lang, imports)]
        \o [k \in 1..Len(interfaces) |-> ParseInterface(interfaces[k], file_path, lang)]
        \o [k \in 1..Len(types) |-> ParseTypeAlias(types[k], file_path, lang)]
        \o ExtractEcsFactoryPatterns(root, file_path, lang, imports)

----------------------------------------------------------------------------
(* Syntax trees the parser is run on.                                      *)

NoFields == [name |-> 0, value |-> 0, function |-> 0]

Node(type, text, rows, children, fields) ==
    [ type        |-> type,
      text        |-> text,
      start_point |-> <<rows[1], 0>>,
      end_point   |-> <<rows[2], 0>>,
      children    |-> children,
      fields      |-> fields,
      parent      |-> <<>> ]

\* the texts of nodes, a blank between two of them
RECURSIVE Texts(_)
Texts(nodes) ==
    IF Len(nodes) = 0 THEN <<>>
    ELSE IF Len(nodes) = 1 THEN nodes[1].text
    ELSE nodes[1].text \o <<" ">> \o Texts(Tail(nodes))

\* every node below node gets its parent
RECURSIVE SetParents(_)
SetParents(node) ==
    LET up == [type |-> node.type, text |-> node.text,
               start_point |-> node.start_point, end_point |-> node.end_point]
    IN  [node EXCEPT !.children =
            [k \in 1..Len(node.children) |->
                SetParents([node.children[k] EXCEPT !.parent = <<up>>])]]

Tok(t, r) == Node(t, <<t>>, <<r, r>>, <<>>, NoFields)

Ident(n, r) == Node("identifier", <<n>>, <<r, r>>, <<>>, NoFields)

TypeIdent(n, r) == Node("type_identifier", <<n>>, <<r, r>>, <<>>, NoFields)

MemberExpr(o, p, r) ==
    Node("member_expression", <<o, ".", p>>, <<r, r>>,
         <<Ident(o, r), Tok(".", r), Node("property_identifier", <<p>>, <<r, r>>, <<>>, NoFields)>>,
         NoFields)

CallExpr(fn, args, rows) ==
    Node("call_expression", (fn.text \o <<"(">>) \o (Texts(args) \o <<")">>), rows,
         <<fn, Node("arguments", (<<"(">> \o Texts(args)) \o <<")">>, rows, args, NoFields)>>,
         [NoFields EXCEPT !.function = 1])

ObjectLit(r) == Node("object", <<"{", "}">>, <<r, r>>, <<>>, NoFields)

Block(type, body, rows) ==
    Node(type, (<<"{">> \o Texts(body)) \o <<"}">>, rows, body, NoFields)

ExtendsClause(value, r) ==
    Node("extends_clause", <<"extends", " ">> \o value.text, <<r, r>>,
         <<Tok("extends", r), value>>, NoFields)

ImplementsClause(n, r) ==
    Node("implements_clause", <<"implements", " ", n>>, <<r, r>>,
         <<Tok("implements", r), TypeIdent(n, r)>>, NoFields)

ClassHeritage(clauses, r) ==
    Node("class_heritage", Texts(clauses), <<r, r>>, clauses, NoFields)

\* heritage: <<>> or <<class_heritage node>>
ClassDecl(n, heritage, body, rows) ==
    Node("class_declaration",
         (<<"class", " ", n, " ">> \o (IF Len(heritage) = 0 THEN <<>>
                                        ELSE Texts(heritage) \o <<" ">>))
            \o Block("class_body", body, rows).text,
         rows,
         (<<Tok("class", rows[1]), TypeIdent(n, rows[1])>> \o heritage)
            \o <<Block("class_body", body, rows)>>,
         [NoFields EXCEPT !.name = 2])

FunctionDecl(n, body, rows) ==
    Node("function_declaration",
         <<"function", " ", n, "(", ")", " ">> \o Block("statement_block", body, rows).text,
         rows,
         <<Tok("function", rows[1]), Ident(n, rows[1]), Block("statement_block", body, rows)>>,
         [NoFields EXCEPT !.name = 2])

ArrowFunction(body, rows) ==
    Node("arrow_function",
         <<"(", ")", " ", "=>", " ">> \o Block("statement_block", body, rows).text,
         rows,
         <<Tok("=>", rows[1]), Block("statement_block", body, rows)>>,
         NoFields)

\* supers: <<>> or <<the name of the interface extended>>
InterfaceDecl(n, supers, rows) ==
    Node("interface_declaration",
         (<<"interface", " ", n, " ">>
            \o (IF Len(supers) = 0 THEN <<>> ELSE <<"extends", " ", supers[1], " ">>))
            \o <<"{", "}">>,
         rows,
         (<<Tok("interface", rows[1]), TypeIdent(n, rows[1])>>
            \o (IF Len(supers) = 0 THEN <<>>
                ELSE <<Node("extends_type_clause", <<"extends", " ", supers[1]>>,
                            <<rows[1], rows[1]>>,
                            <<Tok("extends", rows[1]), TypeIdent(supers[1], rows[1])>>,
                            NoFields)>>))
            \o <<Block("interface_body", <<>>, rows)>>,
         [NoFields EXCEPT !.name = 2])

TypeAliasDecl(n, rows) ==
    Node("type_alias_declaration", <<"type", " ", n, " ", "=", " ", "string">>, rows,
         <<Tok("type", rows[1]), TypeIdent(n, rows[1]), Tok("=", rows[1]),
           Node("predefined_type", <<"string">>, rows, <<>>, NoFields)>>,
         [NoFields EXCEPT !.name = 2])

MethodDef(n, body, rows) ==
    Node("method_definition",
         <<n, "(", ")", " ">> \o Block("statement_block", body, rows).text,
         rows,
         <<Node("property_identifier", <<n>>, <<rows[1], rows[1]>>, <<>>, NoFields),
           Block("statement_block", body, rows)>>,
         [NoFields EXCEPT !.name = 1])

ImportStmt(what, r) ==
    Node("import_statement", <<"import", " ", what>>, <<r, r>>, <<>>, NoFields)

Declarator(n, value, rows) ==
    Node("variable_declarator", <<n, " ", "=", " ">> \o value.text, rows,
         <<Ident(n, rows[1]), Tok("=", rows[1]), value>>,
         [NoFields EXCEPT !.name = 1, !.value = 3])

\* const ...
LexicalDecl(declarators, rows) ==
    Node("lexical_declaration", <<"const", " ">> \o Texts(declarators), rows,
         <<Tok("const", rows[1])>> \o declarators, NoFields)

\* var ...
VariableDecl(declarators, rows) ==
    Node("variable_declaration", <<"var", " ">> \o Texts(declarators), rows,
         <<Tok("var", rows[1])>> \o declarators, NoFields)

ExportStmt(decl) ==
    Node("export_statement", <<"export", " ">> \o decl.text,
         <<decl.start_point[1], decl.end_point[1]>>,
         <<Tok("export", decl.start_point[1]), decl>>, NoFields)

Program(children, last_row) ==
    SetParents(Node("program", Texts(children), <<0, last_row>>, children, NoFields))

\* class Foo extends Bar {}
TreeExtendsIdentifier ==
    Program(<< ImportStmt("A", 0),
               ClassDecl("Foo", <<ClassHeritage(<<ExtendsClause(Ident("Bar", 2), 2)>>, 2)>>,
                         <<>>, <<2, 4>>) >>, 5)

\* class Foo extends createSystem(Base) {}
TreeExtendsCall ==
    Program(<< ClassDecl("Foo",
                  <<ClassHeritage(<<ExtendsClause(
                        CallExpr(Ident("createSystem", 0), <<Ident("Base", 0)>>, <<0, 0>>),
                        0)>>, 0)>>,
                  <<>>, <<0, 19>>) >>, 20)

\* class Foo extends Three.Group implements IFoo {}
TreeExtendsMember ==
    Program(<< ClassDecl("Foo",
                  <<ClassHeritage(<< ExtendsClause(MemberExpr("Three", "Group", 0), 0),
                                     ImplementsClause("IFoo", 0) >>, 0)>>,
                  <<>>, <<0, 2>>) >>, 2)

\* a class without heritage, a function, an exported function, an interface
\* and a type alias
TreeDeclarations ==
    Program(<< ImportStmt("A", 0),
               ClassDecl("Foo", <<>>, <<>>, <<1, 3>>),
               FunctionDecl("f", <<CallExpr(Ident("compute", 5), <<>>, <<5, 5>>)>>, <<4, 6>>),
               ExportStmt(FunctionDecl("g", <<>>, <<7, 8>>)),
               InterfaceDecl("IFoo", <<"IBar">>, <<9, 10>>),
               TypeAliasDecl("TBar", <<11, 11>>) >>, 11)

\* export const Position = createComponent({})
TreeExportedComponent ==
    Program(<< ImportStmt("A", 0),
               ExportStmt(LexicalDecl(
                  <<Declarator("Position",
                        CallExpr(Ident("createComponent", 2), <<ObjectLit(3)>>, <<2, 4>>),
                        <<2, 4>>)>>, <<2, 4>>)) >>, 4)

\* const Move = ecs.createSystem(XRSession); const x = compute(); const y = 5
TreeSystem ==
    Program(<< LexicalDecl(
                  <<Declarator("Move",
                        CallExpr(MemberExpr("ecs", "createSystem", 0),
                                 <<Ident("XRSession", 0)>>, <<0, 0>>),
                        <<0, 0>>)>>, <<0, 0>>),
               LexicalDecl(
                  <<Declarator("x", CallExpr(Ident("compute", 1), <<>>, <<1, 1>>), <<1, 1>>)>>,
                  <<1, 1>>),
               LexicalDecl(
                  <<Declarator("y", Node("number", <<"5">>, <<2, 2>>, <<>>, NoFields), <<2, 2>>)>>,
                  <<2, 2>>) >>, 2)

\* const setup = () => { const Position = createComponent({}) }
TreeNestedInConst ==
    Program(<< LexicalDecl(
                  <<Declarator("setup",
                        ArrowFunction(
                            <<LexicalDecl(
                                <<Declarator("Position",
                                      CallExpr(Ident("createComponent", 1), <<ObjectLit(1)>>,
                                               <<1, 1>>),
                                      <<1, 1>>)>>, <<1, 1>>)>>,
                            <<0, 2>>),
                        <<0, 2>>)>>, <<0, 2>>) >>, 2)

\* var Position = createComponent({})
TreeVar ==
    Program(<< VariableDecl(
                  <<Declarator("Position",
                        CallExpr(Ident("createComponent", 0), <<ObjectLit(0)>>, <<0, 0>>),
                        <<0, 0>>)>>, <<0, 0>>) >>, 0)

\* function setup() { const Position = createComponent({}) }
TreeNestedInFunction ==
    Program(<< FunctionDecl("setup",
                  <<LexicalDecl(
                        <<Declarator("Position",
                              CallExpr(Ident("createComponent", 1), <<ObjectLit(1)>>, <<1, 1>>),
                              <<1, 1>>)>>, <<1, 1>>)>>,
                  <<0, 2>>) >>, 2)

\* class Game { run() { const Move = createSystem(Base) } }
TreeNestedInMethod ==
    Program(<< ClassDecl("Game", <<>>,
                  <<MethodDef("run",
                        <<LexicalDecl(
                              <<Declarator("Move",
                                    CallExpr(Ident("createSystem", 2), <<Ident("Base", 2)>>,
                                             <<2, 2>>),
                                    <<2, 2>>)>>, <<2, 2>>)>>,
                        <<1, 3>>)>>,
                  <<0, 4>>) >>, 4)

\* class Outer extends Base { build() { class Inner extends Other implements IFoo {} } }
TreeNestedClass ==
    Program(<< ClassDecl("Outer",
                  <<ClassHeritage(<<ExtendsClause(Ident("Base", 0), 0)>>, 0)>>,
                  <<MethodDef("build",
                        <<ClassDecl("Inner",
                              <<ClassHeritage(<< ExtendsClause(Ident("Other", 2), 2),
                                                 ImplementsClause("IFoo", 2) >>, 2)>>,
                              <<>>, <<2, 2>>)>>,
                        <<1, 3>>)>>,
                  <<0, 4>>) >>, 4)

\* an empty file
TreeEmpty == Program(<<>>, 0)

Trees == { TreeExtendsIdentifier, TreeExtendsCall, TreeExtendsMember, TreeDeclarations,
           TreeExportedComponent, TreeSystem, TreeNestedInConst, TreeVar,
           TreeNestedInFunction, TreeNestedInMethod, TreeNestedClass, TreeEmpty }

\* a.ts, a.tsx, a.js, a.jsx, a.d.ts, s/a.ts, a.py, a.TS, a.ts.bak, .ts, ts,
\* a., x.ts/a
Paths ==
    { <<"a",".","t","s">>, <<"a",".","t","s","x">>, <<"a",".","j","s">>,
      <<"a",".","j","s","x">>, <<"a",".","d",".","t","s">>, <<"s","/","a",".","t","s">>,
      <<"a",".","p","y">>, <<"a",".","T","S">>, <<"a",".","t","s",".","b","a","k">>,
      <<".","t","s">>, <<"t","s">>, <<"a",".">>, <<"x",".","t","s","/","a">> }

\* parse_file is called on a path; the file exists or not, and the parser
\* chosen gives any of the trees
InitParse ==
    \E path \in Paths : \E exists \in BOOLEAN : \E tree \in Trees :
        /\ parse_file_path = path
        /\ path_exists = exists
        /\ root_node = tree
        /\ parse_pc = "call"
        /\ parse_language = None
        /\ parse_chunks = <<>>
        /\ OptimizerIdle
        /\ IngestIdle
        /\ StoreIdle

\* parse_file: the file does not exist
ParseFileNotFound ==
    /\ parse_pc = "call"
    /\ ~path_exists
    /\ parse_pc' = "FileNotFoundError"
    /\ UNCHANGED <<parse_file_path, path_exists, root_node, parse_language, parse_chunks>>
    /\ UNCHANGED <<optimizer_vars, ingest_vars, store_vars>>

\* parse_file: the suffix is none of .ts, .tsx, .js, .jsx
ParseFileUnsupported ==
    /\ parse_pc = "call"
    /\ path_exists
    /\ LanguageOf(Suffix(parse_file_path)) = None
    /\ parse_pc' = "ValueError"
    /\ UNCHANGED <<parse_file_path, path_exists, root_node, parse_language, parse_chunks>>
    /\ UNCHANGED <<optimizer_vars, ingest_vars, store_vars>>

\* parse_file: the file is parsed and the chunks are extracted
ParseFileReturn ==
    /\ parse_pc = "call"
    /\ path_exists
    /\ LanguageOf(Suffix(parse_file_path)) # None
    /\ parse_language' = LanguageOf(Suffix(parse_file_path))
    /\ parse_chunks' = ParseFileChunks(root_node, parse_file_path,
                                       LanguageOf(Suffix(parse_file_path)))
    /\ parse_pc' = "returned"
    /\ UNCHANGED <<parse_file_path, path_exists, root_node>>
    /\ UNCHANGED <<optimizer_vars, ingest_vars, store_vars>>

ParseNext ==
    \/ ParseFileNotFound
    \/ ParseFileUnsupported
    \/ ParseFileReturn

ParseSpec == InitParse /\ [][ParseNext]_vars

----------------------------------------------------------------------------
(* The batch ingestion loop (ingest_iwsdk_source of scripts/ingest_all.py  *)
(* and main of scripts/ingest_multi.py).  A file of the batch is a record: *)
(* its path, whether it exists, the chunks parse_file extracts from it,    *)
(* its number of lines, and whether optimize_chunks raises on its chunks.  *)

\* parser.parse_file(str(file_path)): the exception raised, or the chunks
ParseFileOutcome(file) ==
    IF ~file.exists THEN [raised |-> "FileNotFoundError", chunks |-> <<>>]
    ELSE IF LanguageOf(Suffix(file.path)) = None
    THEN [raised |-> "ValueError", chunks |-> <<>>]
    ELSE [raised |-> None, chunks |-> file.parsed]

\* the import order of the chunk built in step d: a merged chunk gets the
\* imports of its two chunks in an order list(set(...)) can give
ImportsOf(h, d) ==
    IF d.kind = "merged"
    THEN CHOOSE imps \in MergedImports(h[d.src[1]], h[d.src[2]]) : TRUE
    ELSE <<>>

\* optimize_chunks: the loop over by_file
RECURSIVE OptimizedOfGroups(_, _, _)
OptimizedOfGroups(h, groups, total) ==
    IF Len(groups) = 0 THEN <<>>
    ELSE LET steps == OptimizeFileChunks(h, SortByStartLine(h, Head(groups).file_chunks), 0, {})
         IN  [m \in 1..Len(steps) |->
                    OutputChunk(h, steps[m], TRUE, total, ImportsOf(h, steps[m]))]
                \o OptimizedOfGroups(h, Tail(groups), total)

\* chunker.optimize_chunks(chunks) for the chunks of a file of `total` lines
\* that can be read: the list returned
OptimizeChunksResult(h, total) ==
    IF Len(h) = 0 THEN h
    ELSE OptimizedOfGroups(h, GroupByFile(h, [j \in 1..Len(h) |-> j], <<>>), total)

\* the chunks as they are added to all_chunks: ingest_all sets
\* chunk.source = 'iwsdk' on each, ingest_multi sets no attribute
Collected(optimized_chunks, s) ==
    [k \in 1..Len(optimized_chunks) |->
        [chunk |-> optimized_chunks[k],
         source |-> IF s = "ingest_all" THEN "iwsdk" ELSE None]]

\* the loop ending at the first error
ProcessFile_AbortOnError ==
    /\ script # None
    /\ file_idx <= Len(ts_files)
    /\ LET file   == ts_files[file_idx]
           parsed == ParseFileOutcome(file)
       IN  IF parsed.raised # None \/ (Len(parsed.chunks) > 0 /\ file.optimize_raises)
           THEN /\ failed' = failed + 1
                /\ errors' = errors \cup {file_idx}
                /\ file_idx' = Len(ts_files) + 1
                /\ UNCHANGED <<all_chunks, successful, skipped>>
           ELSE IF Len(parsed.chunks) = 0
           THEN /\ skipped' = IF script = "ingest_multi" THEN skipped + 1 ELSE skipped
                /\ file_idx' = file_idx + 1
                /\ UNCHANGED <<all_chunks, successful, failed, errors>>
           ELSE /\ all_chunks' = all_chunks
                        \o Collected(OptimizeChunksResult(parsed.chunks, file.total), script)
                /\ successful' = successful + 1
                /\ file_idx' = file_idx + 1
                /\ UNCHANGED <<failed, skipped, errors>>
    /\ UNCHANGED <<ts_files, script>>
    /\ UNCHANGED <<optimizer_vars, parser_vars, store_vars>>

\* one iteration of the loop over ts_files: the try block and its handler
ProcessFile ==
    /\ script # None
    /\ file_idx <= Len(ts_files)
    /\ LET file   == ts_files[file_idx]
           parsed == ParseFileOutcome(file)
       IN  IF parsed.raised # None
           THEN /\ failed' = failed + 1
                /\ errors' = errors \cup {file_idx}
                /\ UNCHANGED <<all_chunks, successful, skipped>>
           ELSE IF Len(parsed.chunks) = 0
           THEN /\ skipped' = IF script = "ingest_multi" THEN skipped + 1 ELSE skipped
                /\ UNCHANGED <<all_chunks, successful, failed, errors>>
           ELSE IF file.optimize_raises
           THEN /\ failed' = failed + 1
                /\ errors' = errors \cup {file_idx}
                /\ UNCHANGED <<all_chunks, successful, skipped>>
           ELSE /\ all_chunks' = all_chunks
                        \o Collected(OptimizeChunksResult(parsed.chunks, file.total), script)
                /\ successful' = successful + 1
                /\ UNCHANGED <<failed, skipped, errors>>
    /\ file_idx' = file_idx + 1
    /\ UNCHANGED <<ts_files, script>>
    /\ UNCHANGED <<optimizer_vars, parser_vars, store_vars>>

\* the largest number of files in a batch
MaxFiles == 3

\* a file of the batch; its chunks carry the import list of the file
SourceFile(path, exists, sel, slack, optimize_raises) ==
    LET parsed == [j \in 1..Len(sel) |-> ParsedChunk(path, sel[j][1], sel[j][2], Profiles[1])]
    IN  [ path            |-> path,
          exists          |-> exists,
          parsed          |-> parsed,
          total           |-> LastLine(parsed, path) + slack,
          optimize_raises |-> optimize_raises ]

\* a.ts: two small functions that are merged; b.ts: a class of the right
\* size; c.ts: no chunk; d.py: not a supported extension; e.ts: missing;
\* f.ts: a small class on which the optimizer raises; g.ts: a small class
\* that is expanded, after a chunk of 101 lines
IngestFiles ==
    { SourceFile(<<"a",".","t","s">>, TRUE,
                 << <<<<10, 14>>, <<"function", getX>>>>, <<<<16, 19>>, <<"function", setX>>>> >>,
                 10, FALSE),
      SourceFile(<<"b",".","t","s">>, TRUE, << <<<<21, 40>>, <<"class", getX>>>> >>, 0, FALSE),
      SourceFile(<<"c",".","t","s">>, TRUE, <<>>, 5, FALSE),
      SourceFile(<<"d",".","p","y">>, TRUE, << <<<<21, 40>>, <<"class", getX>>>> >>, 0, FALSE),
      SourceFile(<<"e",".","t","s">>, FALSE, << <<<<21, 40>>, <<"class", getX>>>> >>, 0, FALSE),
      SourceFile(<<"f",".","t","s">>, TRUE, << <<<<3, 5>>, <<"class", setX>>>> >>, 2, TRUE),
      SourceFile(<<"g",".","t","s">>, TRUE,
                 << <<<<120, 124>>, <<"class", setX>>>>, <<<<1, 101>>, <<"class", getX>>>> >>,
                 3, FALSE) }

\* one of the two scripts starts its loop on a batch of at most MaxFiles files
InitIngest ==
    \E n \in 0..MaxFiles : \E batch \in [1..n -> IngestFiles] :
      \E s \in {"ingest_all", "ingest_multi"} :
        /\ ts_files = batch
        /\ script = s
        /\ file_idx = 1
        /\ all_chunks = <<>>
        /\ successful = 0
        /\ failed = 0
        /\ skipped = 0
        /\ errors = {}
        /\ OptimizerIdle
        /\ ParserIdle
        /\ StoreIdle

IngestNext == ProcessFile

IngestSpec == InitIngest /\ [][IngestNext]_vars

----------------------------------------------------------------------------
(* The vector store (storage/vector_store.py): add_chunks and the ids it   *)
(* gives.  A path, a name and an id are sequences of characters.           *)

\* Path(p).parts for a POSIX path: the root '/', then the components
RECURSIVE PathParts(_)
PathParts(path) ==
    IF Len(path) = 0 THEN <<>>
    ELSE IF path[1] = "/"
    THEN LET rest == PathParts(Tail(path))
         IN  IF Len(rest) > 0 /\ rest[1] = <<"/">> THEN rest ELSE <<<<"/">>>> \o rest
    ELSE LET slashes == {k \in 1..Len(path) : path[k] = "/"}
         IN  IF slashes = {} THEN <<path>>
             ELSE LET s == CHOOSE k \in slashes : \A l \in slashes : k <= l
                      rest == PathParts(SubSeq(path, s + 1, Len(path)))
                  IN  <<SubSeq(path, 1, s - 1)>>
                        \o (IF Len(rest) > 0 /\ rest[1] = <<"/">> THEN Tail(rest) ELSE rest)

\* '/'.join(parts)
RECURSIVE JoinParts(_)
JoinParts(parts) ==
    IF Len(parts) = 0 THEN <<>>
    ELSE IF Len(parts) = 1 THEN parts[1]
    ELSE parts[1] \o <<"/">> \o JoinParts(Tail(parts))

\* str(n) for n >= 0
RECURSIVE Decimal(_)
Decimal(n) ==
    LET digits == <<"0","1","2","3","4","5","6","7","8","9">>
    IN  IF n < 10 THEN <<digits[n + 1]>>
        ELSE Decimal(n \div 10) \o <<digits[(n % 10) + 1]>>

\* the path from the first component 'src' on, or the name of the file
RelPath(file_path) ==
    LET file_parts == PathParts(file_path)
        src        == <<"s","r","c">>
        at_src     == {k \in 1..Len(file_parts) : file_parts[k] = src}
    IN  IF at_src # {}
        THEN LET src_idx == CHOOSE k \in at_src : \A l \in at_src : k <= l
             IN  JoinParts(SubSeq(file_parts, src_idx, Len(file_parts)))
        ELSE PathName(file_path)

\* VectorStore._generate_id; source: None or a sequence of characters
GenerateId(chunk, index, source) ==
    LET rel_path      == RelPath(chunk.file_path)
        source_prefix == IF source # None /\ Len(source) > 0 THEN source \o <<":">> ELSE <<>>
        chunk_id      == source_prefix \o rel_path \o <<":">> \o chunk.chunk_type \o <<":">>
                            \o chunk.name \o <<":", "L">> \o Decimal(chunk.start_line)
    IN  chunk_id \o <<":">> \o Decimal(index)

\* the ids of the entries of a collection
IdsOf(entries) == {entries[k].id : k \in 1..Len(entries)}

\* the largest number of add_chunks calls on the store, and of chunks in a call
MaxCalls == 2

MaxBatch == 2

\* a chunk as the store sees it
StoredChunk(file_path, name, start_line, end_line) ==
    [ file_path  |-> file_path,
      chunk_type |-> <<"f","u","n","c","t","i","o","n">>,
      name       |-> name,
      start_line |-> start_line,
      end_line   |-> end_line,
      content    |-> NodeText(start_line, end_line) ]

\* f at line 1 of /r/a/src/x.ts and of /r/b/src/x.ts (two packages); f at line
\* 1 of /r/a/src/x.ts with another end; g at line 12 of /r/a/src/x.ts; f at
\* line 1 of lib/u.ts and of etc/u.ts (no component 'src')
StoreChunks ==
    { StoredChunk(<<"/","r","/","a","/","s","r","c","/","x",".","t","s">>, <<"f">>, 1, 20),
      StoredChunk(<<"/","r","/","a","/","s","r","c","/","x",".","t","s">>, <<"f">>, 1, 30),
      StoredChunk(<<"/","r","/","b","/","s","r","c","/","x",".","t","s">>, <<"f">>, 1, 20),
      StoredChunk(<<"/","r","/","a","/","s","r","c","/","x",".","t","s">>, <<"g">>, 12, 40),
      StoredChunk(<<"l","i","b","/","u",".","t","s">>, <<"f">>, 1, 20),
      StoredChunk(<<"e","t","c","/","u",".","t","s">>, <<"f">>, 1, 20) }

Sources == { None, <<"i","w","s","d","k">>, <<"d","e","p","s">> }

\* a new store
InitStore ==
    /\ StoreIdle
    /\ OptimizerIdle
    /\ ParserIdle
    /\ IngestIdle

\* add_chunks(chunks, embeddings, source).  collection.add on an id that is
\* in the collection already raises or leaves the old entry, depending on the
\* version of the library: either can happen.
AddChunks ==
    /\ add_calls < MaxCalls
    /\ \E n \in 0..MaxBatch : \E batch \in [1..n -> StoreChunks] :
       \E embeddings \in {n, n + 1} : \E source \in Sources :
          IF n # embeddings
          THEN /\ add_result' = "ValueError"
               /\ UNCHANGED <<collection, issued>>
          ELSE IF n = 0
          THEN /\ add_result' = "returned"
               /\ UNCHANGED <<collection, issued>>
          ELSE LET ids     == [k \in 1..n |-> GenerateId(batch[k], k - 1, source)]
                   entries == [k \in 1..n |-> [id |-> ids[k], document |-> batch[k].content]]
                   New(e)  == e.id \notin IdsOf(collection)
               IN  /\ issued' = issued \o [k \in 1..n |->
                                    [id |-> ids[k], chunk |-> batch[k], call |-> add_calls + 1]]
                   /\ IF \A k \in 1..n : New(entries[k])
                      THEN /\ collection' = collection \o entries
                           /\ add_result' = "returned"
                      ELSE \/ /\ collection' = collection
                              /\ add_result' = "DuplicateIDError"
                           \/ /\ collection' = collection \o SelectSeq(entries, New)
                              /\ add_result' = "returned"
    /\ add_calls' = add_calls + 1
    /\ UNCHANGED <<optimizer_vars, parser_vars, ingest_vars>>

StoreNext == AddChunks

StoreSpec == InitStore /\ [][StoreNext]_vars

----------------------------------------------------------------------------
(* State functions the properties are written with.                        *)

\* the loop of _optimize_file_chunks has ended for the current file
LoopEnded == pc = "scan" /\ i >= Len(FileChunks)

\* the chunks output so far, and how each was built
OutList == IF pc = "scan" THEN optimized \o file_optimized ELSE optimized

OutProv == IF pc = "scan" THEN prov \o file_prov ELSE prov

\* the positions of pv whose chunk was built from input chunk id
UsesOf(id, pv) == {k \in 1..Len(pv) : \E m \in 1..Len(pv[k].src) : pv[k].src[m] = id}

InBand(c) == MIN_CHUNK_SIZE <= Size(c) /\ Size(c) <= MAX_CHUNK_SIZE

Lines(c) == c.start_line..c.end_line

Overlap(c, d) ==
    /\ c.file_path = d.file_path
    /\ Max(c.start_line, d.start_line) <= Min(c.end_line, d.end_line)

\* the input chunks of each file have pairwise disjoint line ranges
InputsDisjoint ==
    \A j, k \in 1..Len(orig) : j # k => ~Overlap(orig[j], orig[k])

----------------------------------------------------------------------------
(* C1: when _optimize_file_chunks has scanned the n chunks of a file,      *)
(* every index 0..n-1 went into exactly one output chunk: as one of the    *)
(* two (different) constituents of one merged chunk, as the source of one  *)
(* expanded chunk, or passed through once.                                 *)
C1_EveryInputOnce ==
    LoopEnded =>
        /\ Len(file_prov) = Len(file_optimized)
        /\ \A k \in 1..Len(FileChunks) :
                Cardinality(UsesOf(FileChunks[k], file_prov)) = 1
        /\ \A k \in 1..Len(file_prov) :
                IF file_prov[k].kind = "merged"
                THEN Len(file_prov[k].src) = 2 /\ file_prov[k].src[1] # file_prov[k].src[2]
                ELSE Len(file_prov[k].src) = 1

\* a file of three chunks was scanned: one pair was merged, one chunk expanded
C1_Witness ==
    /\ LoopEnded
    /\ Len(FileChunks) = 3
    /\ \E k \in 1..Len(file_prov) : file_prov[k].kind = "merged"
    /\ \E k \in 1..Len(file_prov) : file_prov[k].kind = "expanded"

----------------------------------------------------------------------------
----------------------------------------------------------------------------
(* C3: when _optimize_file_chunks finishes, the consumed set holds all n   *)
(* indices, so the 'Unconsumed indices' warning is never printed.          *)
C3_AllConsumed ==
    /\ LoopEnded => consumed = 0..(Len(FileChunks) - 1)
    /\ warnings = <<>>

----------------------------------------------------------------------------
(* C4 as stated: for input chunks with pairwise disjoint line ranges,      *)
(* every source line of an input chunk is covered by an output chunk and   *)
(* no source line is covered by two different output chunks.               *)
NoLoss ==
    \A j \in 1..Len(orig) : \A line \in Lines(orig[j]) :
        \E k \in 1..Len(optimized) :
            /\ heap[optimized[k]].file_path = orig[j].file_path
            /\ line \in Lines(heap[optimized[k]])

C4_NoLossNoDuplication ==
    (pc = "done" /\ InputsDisjoint) =>
        /\ NoLoss
        /\ \A k1, k2 \in 1..Len(optimized) :
                k1 # k2 => ~Overlap(heap[optimized[k1]], heap[optimized[k2]])

(* C4 amended: for input chunks with pairwise disjoint line ranges, every  *)
(* source line of an input chunk is covered by an output chunk, and a      *)
(* source line is covered by two different output chunks only when one of  *)
(* them is an expanded chunk (label 'expanded_context').                   *)
C4_NoLossOverlapOnlyByExpansion ==
    (pc = "done" /\ InputsDisjoint) =>
        /\ NoLoss
        /\ \A k1, k2 \in 1..Len(optimized) :
                (k1 # k2 /\ Overlap(heap[optimized[k1]], heap[optimized[k2]])) =>
                    \/ "expanded_context" \in heap[optimized[k1]].semantic_labels
                    \/ "expanded_context" \in heap[optimized[k2]].semantic_labels

\* disjoint chunks of one file came back as a merged chunk and an expanded
\* chunk that overlap
C4_Witness ==
    /\ pc = "done"
    /\ InputsDisjoint
    /\ Len(orig) = 3
    /\ \E k1, k2 \in 1..Len(optimized) :
            /\ prov[k1].kind = "merged"
            /\ prov[k2].kind = "expanded"
            /\ Overlap(heap[optimized[k1]], heap[optimized[k2]])

----------------------------------------------------------------------------
(* C5 as stated: if every input chunk has a line count within              *)
(* [MIN_CHUNK_SIZE, MAX_CHUNK_SIZE], optimize_chunks returns a list        *)
(* identical to the input, whatever the order of the input.                *)
AllInBand == \A j \in 1..Len(orig) : InBand(orig[j])

InputUnchanged ==
    /\ Len(heap) = Len(orig)
    /\ \A j \in 1..Len(orig) : heap[j] = orig[j]

C5_InBandIdentity ==
    (pc = "done" /\ AllInBand) => (optimized = chunks /\ InputUnchanged)

\* the first position of a chunk of file f in the input list
FirstPos(f) == CHOOSE j \in 1..Len(orig) :
                    /\ orig[j].file_path = f
                    /\ \A k \in 1..(j - 1) : orig[k].file_path # f

\* input chunk x is output before input chunk y: files in the order of their
\* first chunk, the chunks of a file by start_line, ties in input order
OutputBefore(x, y) ==
    IF orig[x].file_path # orig[y].file_path
    THEN FirstPos(orig[x].file_path) < FirstPos(orig[y].file_path)
    ELSE \/ orig[x].start_line < orig[y].start_line
         \/ orig[x].start_line = orig[y].start_line /\ x < y

(* C5 amended: if every input chunk has a line count within                *)
(* [MIN_CHUNK_SIZE, MAX_CHUNK_SIZE], optimize_chunks returns the same      *)
(* chunk objects, no field changed, grouped by file in the order of each   *)
(* file's first chunk and within a file ascending by start_line (equal     *)
(* start_line: input order); the list is identical to the input when the   *)
(* input is already in that order.                                         *)
C5_InBandSameChunksReordered ==
    (pc = "done" /\ AllInBand) =>
        /\ InputUnchanged
        /\ Len(optimized) = Len(chunks)
        /\ Range(optimized) = Range(chunks)
        /\ \A p, q \in 1..Len(optimized) :
                p < q => OutputBefore(optimized[p], optimized[q])
        /\ (\A p, q \in 1..Len(chunks) : p < q => OutputBefore(chunks[p], chunks[q]))
                => optimized = chunks

\* three chunks of the right size, of two files, came back in another order
C5_Witness ==
    /\ pc = "done"
    /\ AllInBand
    /\ Len(chunks) = 3
    /\ \E j, k \in 1..Len(orig) : orig[j].file_path # orig[k].file_path
    /\ optimized # chunks

----------------------------------------------------------------------------
(* C6: for every merged chunk built from chunks a and b: extends,          *)
(* implements, calls, uses_types, the API-usage sets and semantic_labels   *)
(* (without the added 'merged_chunk') are the unions of a's and b's,       *)
(* imports lists the union of both import lists, each import once, and     *)
(* ecs_component / ecs_system are the OR of a's and b's flags.             *)
C6_MergedFieldsAreUnions ==
    \A k \in 1..Len(OutList) :
        OutProv[k].kind = "merged" =>
            LET a == orig[OutProv[k].src[1]]
                b == orig[OutProv[k].src[2]]
                m == heap[OutList[k]]
            IN  /\ m.extends = a.extends \cup b.extends
                /\ m.implements = a.implements \cup b.implements
                /\ m.calls = a.calls \cup b.calls
                /\ m.uses_types = a.uses_types \cup b.uses_types
                /\ m.webxr_api_usage = a.webxr_api_usage \cup b.webxr_api_usage
                /\ m.three_js_usage = a.three_js_usage \cup b.three_js_usage
                /\ "merged_chunk" \in m.semantic_labels
                /\ m.semantic_labels \ {"merged_chunk"} = a.semantic_labels \cup b.semantic_labels
                /\ Range(m.imports) = Range(a.imports) \cup Range(b.imports)
                /\ Len(m.imports) = Cardinality(Range(m.imports))
                /\ m.ecs_component = (a.ecs_component \/ b.ecs_component)
                /\ m.ecs_system = (a.ecs_system \/ b.ecs_system)

\* a chunk was merged from two chunks whose flags differ and whose sets and
\* import lists are not contained in one another
C6_Witness ==
    \E k \in 1..Len(OutList) :
        /\ OutProv[k].kind = "merged"
        /\ LET a == orig[OutProv[k].src[1]]
               b == orig[OutProv[k].src[2]]
           IN  /\ a.ecs_component # b.ecs_component
               /\ a.ecs_system # b.ecs_system
               /\ ~(a.extends \subseteq b.extends)
               /\ ~(b.calls \subseteq a.calls)
               /\ Range(a.imports) # Range(b.imports)

----------------------------------------------------------------------------
(* C7: every merged chunk built from chunks a and b, overlapping and       *)
(* nested ranges included, starts at min(a.start_line, b.start_line) and   *)
(* ends at max(a.end_line, b.end_line).                                    *)
C7_MergedRangeIsUnion ==
    \A k \in 1..Len(OutList) :
        OutProv[k].kind = "merged" =>
            LET a == orig[OutProv[k].src[1]]
                b == orig[OutProv[k].src[2]]
                m == heap[OutList[k]]
            IN  /\ m.start_line = Min(a.start_line, b.start_line)
                /\ m.end_line = Max(a.end_line, b.end_line)

----------------------------------------------------------------------------
(* C8: a small chunk expanded by _expand_with_context, with                *)
(* needed = MIN_CHUNK_SIZE - size, gets the range                          *)
(* [max(1, start_line - needed div 2),                                     *)
(*  min(total_lines, end_line + needed - needed div 2)]: it starts at line *)
(* 1 or later, ends at total_lines or earlier, and has MIN_CHUNK_SIZE      *)
(* lines when neither side is clipped.                                     *)
C8_ExpandedRange ==
    \A k \in 1..Len(OutList) :
        (OutProv[k].kind = "expanded" /\ OutProv[k].file_ok) =>
            LET c      == orig[OutProv[k].src[1]]
                e      == heap[OutList[k]]
                total  == total_lines[c.file_path]
                needed == MIN_CHUNK_SIZE - Size(c)
                before == needed \div 2
                after  == needed - before
            IN  /\ e.start_line = Max(1, c.start_line - before)
                /\ e.end_line = Min(total, c.end_line + after)
                /\ 1 <= e.start_line
                /\ e.end_line <= total
                /\ (c.start_line - before >= 1 /\ c.end_line + after <= total)
                        => Size(e) = MIN_CHUNK_SIZE

\* a chunk was expanded and clipped at the end of the file, not at its start
C8_Witness ==
    \E k \in 1..Len(OutList) :
        /\ OutProv[k].kind = "expanded"
        /\ OutProv[k].file_ok
        /\ LET c      == orig[OutProv[k].src[1]]
               e      == heap[OutList[k]]
               needed == MIN_CHUNK_SIZE - Size(c)
           IN  /\ e.start_line = c.start_line - (needed \div 2)
               /\ e.start_line > 1
               /\ e.end_line = total_lines[c.file_path]
               /\ e.end_line > c.end_line
               /\ Size(e) < MIN_CHUNK_SIZE

----------------------------------------------------------------------------
(* C9: a call with two chunks a, b of one file, of the same chunk_type k,  *)
(* named get<R> and set<R> (either way round), a starting before b, a      *)
(* smaller than MIN_CHUNK_SIZE, b.start_line - a.end_line <= MAX_MERGE_GAP *)
(* and b.end_line - a.start_line + 1 <= MAX_CHUNK_SIZE, returns exactly    *)
(* one chunk: chunk_type k_group, name <a.name>_and_<b.name>, range        *)
(* a.start_line .. b.end_line.                                             *)
GetSetPair(n1, n2) ==
    LET get == <<"g","e","t">>
        set == <<"s","e","t">>
    IN  /\ \/ StartsWith(n1, get) /\ StartsWith(n2, set)
           \/ StartsWith(n1, set) /\ StartsWith(n2, get)
        /\ From3(n1) = From3(n2)

C9_Premise(a, b) ==
    /\ a.file_path = b.file_path
    /\ a.chunk_type = b.chunk_type
    /\ GetSetPair(a.name, b.name)
    /\ Size(a) < MIN_CHUNK_SIZE
    /\ b.start_line - a.end_line <= MAX_MERGE_GAP
    /\ b.end_line - a.start_line + 1 <= MAX_CHUNK_SIZE

----------------------------------------------------------------------------
----------------------------------------------------------------------------
(* C11: if every input chunk of a file satisfies                           *)
(* 1 <= start_line <= end_line <= total_lines of its file, every chunk the *)
(* optimizer outputs (passed through, merged or expanded) satisfies        *)
(* 1 <= start_line <= end_line <= total_lines too.                         *)
WithinFile(c) ==
    /\ 1 <= c.start_line
    /\ c.start_line <= c.end_line
    /\ c.end_line <= total_lines[c.file_path]

C11_OutputRangesWithinFile ==
    (\A j \in 1..Len(orig) : WithinFile(orig[j])) =>
        \A k \in 1..Len(OutList) : WithinFile(heap[OutList[k]])

\* the call returned a merged chunk and a chunk that was expanded up to the
\* last line of its file and not by as many lines as it needed
C11_Witness ==
    /\ pc = "done"
    /\ \A j \in 1..Len(orig) : WithinFile(orig[j])
    /\ \E k \in 1..Len(optimized) : prov[k].kind = "merged"
    /\ \E k \in 1..Len(optimized) :
            /\ prov[k].kind = "expanded"
            /\ prov[k].file_ok
            /\ heap[optimized[k]].end_line = total_lines[heap[optimized[k]].file_path]
            /\ Size(heap[optimized[k]]) < MIN_CHUNK_SIZE

----------------------------------------------------------------------------
(* C12: files are independent: for each file, the output chunks of a call  *)
(* on a list mixing several files are exactly the chunks                   *)
(* _optimize_file_chunks builds from that file's chunks alone (in their    *)
(* input order, sorted by start_line), so they do not depend on the chunks *)
(* of any other file; no merged chunk combines chunks of two files.        *)
ChunksOfFile(f) ==
    LET OfFile(c) == orig[c].file_path = f
    IN  SelectSeq(chunks, OfFile)

OutputsOfFile(f) ==
    LET OfFile(k) == orig[prov[k].src[1]].file_path = f
    IN  SelectSeq([k \in 1..Len(prov) |-> k], OfFile)

C12_FilesIndependent ==
    pc = "done" =>
        \A f \in Files :
            LET alone == OptimizeFileChunks(orig, SortByStartLine(orig, ChunksOfFile(f)), 0, {})
                pos   == OutputsOfFile(f)
            IN  /\ Len(pos) = Len(alone)
                /\ \A m \in 1..Len(pos) :
                      LET pv == prov[pos[m]]
                          c  == heap[optimized[pos[m]]]
                      IN  /\ pv.kind = alone[m].kind
                          /\ pv.src = alone[m].src
                          /\ \A n \in 1..Len(pv.src) : orig[pv.src[n]].file_path = f
                          /\ c.file_path = f
                          /\ c = OutputChunk(orig, alone[m], pv.file_ok, total_lines[f], c.imports)
                          /\ pv.kind = "merged" =>
                                c.imports \in MergedImports(orig[pv.src[1]], orig[pv.src[2]])

\* a call whose list alternates between two files returned a merged chunk of
\* the first file and a chunk of the second
C12_Witness ==
    /\ pc = "done"
    /\ Len(orig) = 3
    /\ orig[1].file_path # orig[2].file_path
    /\ orig[3].file_path = orig[1].file_path
    /\ Len(optimized) = 2
    /\ prov[1].kind = "merged"
    /\ prov[1].src = <<1, 3>>
    /\ heap[optimized[2]].file_path = orig[2].file_path

----------------------------------------------------------------------------
(* C17: every merged chunk is built from two chunks a and b of the same    *)
(* file, a before b in the sorted list (and also: a, b in the order        *)
(* _merge_chunks puts them in), with                                       *)
(* b.start_line - a.end_line <= MAX_MERGE_GAP and                          *)
(* b.end_line - a.start_line + 1 <= MAX_CHUNK_SIZE; no merged chunk has    *)
(* more than MAX_CHUNK_SIZE lines.                                         *)
MergeBounds(a, b) ==
    /\ a.file_path = b.file_path
    /\ b.start_line - a.end_line <= MAX_MERGE_GAP
    /\ b.end_line - a.start_line + 1 <= MAX_CHUNK_SIZE

C17_MergedWithinGapAndSize ==
    \A k \in 1..Len(OutList) :
        OutProv[k].kind = "merged" =>
            LET a      == orig[OutProv[k].src[1]]
                b      == orig[OutProv[k].src[2]]
                first  == IF a.start_line < b.start_line THEN a ELSE b
                second == IF a.start_line < b.start_line THEN b ELSE a
            IN  /\ MergeBounds(a, b)
                /\ MergeBounds(first, second)
                /\ Size(heap[OutList[k]]) <= MAX_CHUNK_SIZE

\* a merged chunk of exactly MAX_CHUNK_SIZE lines was built
C17_Witness ==
    \E k \in 1..Len(OutList) :
        /\ OutProv[k].kind = "merged"
        /\ Size(heap[OutList[k]]) = MAX_CHUNK_SIZE
        /\ orig[OutProv[k].src[2]].start_line - orig[OutProv[k].src[1]].end_line > 0

----------------------------------------------------------------------------
(* C18: a pair of chunks a, b (a small, before b in the sorted list) that  *)
(* passes the same-file, gap and combined-size checks is merged exactly    *)
(* when both chunk types are in {interface, type}, or the chunk types are  *)
(* equal and the names are a get/set pair with equal remainders, share a   *)
(* lifecycle prefix, or the chunks share an enclosing class; nothing else  *)
(* makes the pair eligible.                                                *)
SharedLifecyclePrefix(n1, n2) ==
    \E prefix \in LifecyclePrefixes : StartsWith(n1, prefix) /\ StartsWith(n2, prefix)

SpecEligible(a, b) ==
    \/ /\ a.chunk_type \in {<<"interface">>, <<"type">>}
       /\ b.chunk_type \in {<<"interface">>, <<"type">>}
    \/ /\ a.chunk_type = b.chunk_type
       /\ \/ GetSetPair(Lower(a.name), Lower(b.name))
          \/ SharedLifecyclePrefix(Lower(a.name), Lower(b.name))
          \/ a.class_name # None /\ a.class_name = b.class_name

C18_EligibleExactlyByListedRules ==
    (pc = "done" /\ Len(orig) = 2 /\ Len(by_file) = 1) =>
        LET a == orig[by_file[1].file_chunks[1]]
            b == orig[by_file[1].file_chunks[2]]
        IN  (Size(a) < MIN_CHUNK_SIZE /\ MergeBounds(a, b)) =>
                ((Len(optimized) = 1 /\ prov[1].kind = "merged") <=> SpecEligible(a, b))

----------------------------------------------------------------------------
(* C19: for a small unconsumed chunk i the loop merges with chunk i+1 when *)
(* that one is unconsumed and eligible (also when chunk i-1 is eligible    *)
(* too); only otherwise with chunk i-1 when that one is unconsumed and     *)
(* eligible; otherwise chunk i is expanded.                                *)
NextEligible ==
    /\ i < Len(FileChunks) - 1
    /\ (i + 1) \notin consumed
    /\ ShouldMerge(ChunkAt(i), ChunkAt(i + 1))

PreviousEligible ==
    /\ i > 0
    /\ (i - 1) \notin consumed
    /\ ShouldMerge(ChunkAt(i - 1), ChunkAt(i))

C19_NextThenPreviousThenExpand ==
    [][ ( /\ pc = "scan"
          /\ i < Len(FileChunks)
          /\ i \notin consumed
          /\ Size(ChunkAt(i)) < MIN_CHUNK_SIZE ) =>
            LET last == file_prov'[Len(file_prov')]
            IN  /\ Len(file_prov') = Len(file_prov) + 1
                /\ IF NextEligible
                   THEN /\ last.kind = "merged"
                        /\ last.src = <<FileChunks[i + 1], FileChunks[i + 2]>>
                        /\ consumed' = consumed \cup {i, i + 1}
                   ELSE IF PreviousEligible
                   THEN /\ last.kind = "merged"
                        /\ last.src = <<FileChunks[i], FileChunks[i + 1]>>
                        /\ consumed' = consumed \cup {i - 1, i}
                   ELSE /\ last.kind = "expanded"
                        /\ last.src = <<FileChunks[i + 1]>>
                        /\ consumed' = consumed ]_vars

\* the second of three chunks, small, was merged with the third, though the
\* first (of the right size, passed through) was eligible as well
C19_Witness ==
    /\ pc = "scan"
    /\ Len(FileChunks) = 3
    /\ i = 2
    /\ Len(file_prov) = 2
    /\ file_prov[1].kind = "perfect"
    /\ file_prov[2].kind = "merged"
    /\ file_prov[2].src = <<FileChunks[2], FileChunks[3]>>
    /\ ShouldMerge(orig[FileChunks[1]], orig[FileChunks[2]])

----------------------------------------------------------------------------
(* C20: the chunk a successful expansion produces has the original's name, *)
(* chunk_type, file_path, language, imports, calls, extends, implements,   *)
(* uses_types, ecs_component, ecs_system and API-usage sets, and the       *)
(* original's semantic_labels plus 'expanded_context'; only content,       *)
(* start_line and end_line differ.                                         *)
C20_ExpandedKeepsFields ==
    \A k \in 1..Len(OutList) :
        (OutProv[k].kind = "expanded" /\ OutProv[k].file_ok) =>
            LET c == orig[OutProv[k].src[1]]
                e == heap[OutList[k]]
            IN  /\ e = [c EXCEPT !.content = e.content,
                                 !.start_line = e.start_line,
                                 !.end_line = e.end_line,
                                 !.semantic_labels = @ \cup {"expanded_context"}]
                /\ e.content # c.content
                /\ OutList[k] # OutProv[k].src[1]

\* a chunk with calls, imports, a flag and labels was expanded on both sides
C20_Witness ==
    \E k \in 1..Len(OutList) :
        /\ OutProv[k].kind = "expanded"
        /\ OutProv[k].file_ok
        /\ LET c == orig[OutProv[k].src[1]]
               e == heap[OutList[k]]
           IN  /\ c.calls # {}
               /\ c.imports # <<>>
               /\ c.ecs_component
               /\ c.semantic_labels # {}
               /\ e.start_line < c.start_line
               /\ e.end_line > c.end_line

----------------------------------------------------------------------------
(* C13: parse_file chooses the language from the file extension only: a    *)
(* call on an existing file returns, with language 'typescript', exactly   *)
(* when the name ends in .ts or .tsx, and with language 'javascript'       *)
(* exactly when it ends in .js or .jsx; on an existing file with any other *)
(* extension it raises the unsupported-extension error (ValueError) and    *)
(* returns no chunks.                                                      *)
HasExtension(path, ext) ==
    /\ Len(path) > Len(ext)
    /\ SubSeq(path, Len(path) - Len(ext) + 1, Len(path)) = ext
    /\ path[Len(path) - Len(ext)] # "/"

IsTypeScriptPath(path) ==
    HasExtension(path, <<".","t","s">>) \/ HasExtension(path, <<".","t","s","x">>)

IsJavaScriptPath(path) ==
    HasExtension(path, <<".","j","s">>) \/ HasExtension(path, <<".","j","s","x">>)

C13_LanguageFromExtension ==
    (path_exists /\ parse_pc # "call") =>
        IF IsTypeScriptPath(parse_file_path) \/ IsJavaScriptPath(parse_file_path)
        THEN /\ parse_pc = "returned"
             /\ parse_language = (IF IsTypeScriptPath(parse_file_path)
                                  THEN "typescript" ELSE "javascript")
             /\ \A k \in 1..Len(parse_chunks) : parse_chunks[k].language = parse_language
        ELSE /\ parse_pc = "ValueError"
             /\ parse_chunks = <<>>

\* a.d.ts was parsed as TypeScript into several chunks
C13_Witness ==
    /\ parse_pc = "returned"
    /\ path_exists
    /\ parse_file_path = <<"a",".","d",".","t","s">>
    /\ parse_language = "typescript"
    /\ Len(parse_chunks) > 1

----------------------------------------------------------------------------
(* C14: in the batch ingestion loop an error raised while parsing or       *)
(* optimizing one file is caught and counted as that file's failure, the   *)
(* loop goes on with the remaining files, and the chunks collected are     *)
(* exactly those the loop collects from the batch without the failing      *)
(* files.                                                                  *)
Raises(file) ==
    \/ ParseFileOutcome(file).raised # None
    \/ Len(ParseFileOutcome(file).chunks) > 0 /\ file.optimize_raises

\* what the loop collects from a batch none of whose files fails
RECURSIVE CollectedFrom(_, _)
CollectedFrom(files, s) ==
    IF Len(files) = 0 THEN <<>>
    ELSE Collected(OptimizeChunksResult(ParseFileOutcome(Head(files)).chunks,
                                        Head(files).total), s)
            \o CollectedFrom(Tail(files), s)

C14_FailingFileIsolated ==
    script # None =>
        LET done     == SubSeq(ts_files, 1, file_idx - 1)
            Sound(f) == ~Raises(f)
            Empty(f) == ~Raises(f) /\ Len(ParseFileOutcome(f).chunks) = 0
        IN  /\ file_idx <= Len(ts_files) + 1
            /\ errors = {k \in 1..Len(ts_files) : Raises(ts_files[k]) /\ k < file_idx}
            /\ failed = Cardinality(errors)
            /\ successful = Len(SelectSeq(done, Sound)) - Len(SelectSeq(done, Empty))
            /\ all_chunks = CollectedFrom(SelectSeq(done, Sound), script)

\* a batch of three files was processed: the second failed, the first and
\* the third gave chunks
C14_Witness ==
    /\ script # None
    /\ Len(ts_files) = 3
    /\ file_idx = 4
    /\ errors = {2}
    /\ failed = 1
    /\ successful = 2
    /\ \E k \in 1..Len(all_chunks) : all_chunks[k].chunk.file_path = ts_files[1].path
    /\ \E k \in 1..Len(all_chunks) : all_chunks[k].chunk.file_path = ts_files[3].path
    /\ ts_files[1].path # ts_files[3].path

----------------------------------------------------------------------------
(* C15: for a class declaration, each child of its extends clause adds to  *)
(* the chunk's extends set: an identifier or type identifier its own text  *)
(* ('extends Bar' gives {'Bar'}); a call expression the callee's text and  *)
(* not the text of the call ('extends createSystem(Base)' gives            *)
(* {'createSystem'}); a member expression its full text                    *)
(* ('extends Three.Group' gives {'Three.Group'}).                          *)
ChildrenOfType(node, type) ==
    {node.children[k] : k \in {j \in 1..Len(node.children) : node.children[j].type = type}}

\* the children of the extends clauses of a class declaration's own heritage
ExtendsChildren(class_node) ==
    UNION { UNION { Range(ec.children) : ec \in ChildrenOfType(h, "extends_clause") } :
                h \in ChildrenOfType(class_node, "class_heritage") }

C15_ExtendsFromHeritage ==
    parse_pc = "returned" =>
        LET classes == FindNodesByType(root_node, "class_declaration")
        IN  /\ \A j \in 1..Len(classes) :
                  \A child \in ExtendsChildren(classes[j]) :
                      LET extends == parse_chunks[j].extends
                      IN  /\ child.type \in {"identifier", "type_identifier"} =>
                                child.text \in extends
                          /\ child.type = "call_expression" =>
                                /\ child.children[child.fields.function].text \in extends
                                /\ child.text \notin extends
                          /\ child.type = "member_expression" =>
                                child.text \in extends
            /\ root_node = TreeExtendsIdentifier =>
                    parse_chunks[1].extends = {<<"Bar">>}
            /\ root_node = TreeExtendsCall =>
                    parse_chunks[1].extends = {<<"createSystem">>}
            /\ root_node = TreeExtendsMember =>
                    parse_chunks[1].extends = {<<"Three", ".", "Group">>}

\* class Foo extends createSystem(Base) {} was parsed
C15_Witness ==
    /\ parse_pc = "returned"
    /\ root_node = TreeExtendsCall
    /\ parse_chunks[1].chunk_type = <<"class">>
    /\ <<"createSystem">> \in parse_chunks[1].extends

----------------------------------------------------------------------------
(* C16: a variable declarator whose initializer is a call expression whose *)
(* callee text contains 'createComponent' ('createSystem') yields one      *)
(* chunk named after the variable, with chunk_type 'component' ('system'), *)
(* ecs_component (ecs_system) true, the label 'ecs_component'              *)
(* ('ecs_system') and 'Component' ('System') in extends; its content and   *)
(* line range are those of the enclosing export statement when the         *)
(* declaration is exported, else those of the declaration.                 *)
IsFactoryDeclarator(d, factory) ==
    /\ d.type = "variable_declarator"
    /\ d.fields.name # 0
    /\ d.fields.value # 0
    /\ d.children[d.fields.value].type = "call_expression"
    /\ d.children[d.fields.value].fields.function # 0
    /\ Contains(d.children[d.fields.value].children[
                    d.children[d.fields.value].fields.function].text, <<factory>>)

\* the chunk c is the one the claim describes for declarator d of declaration decl
IsFactoryChunkOf(c, decl, d, kind) ==
    LET exported == decl.parent # <<>> /\ decl.parent[1].type = "export_statement"
        outer    == IF exported THEN decl.parent[1]
                    ELSE [type |-> decl.type, text |-> decl.text,
                          start_point |-> decl.start_point, end_point |-> decl.end_point]
    IN  /\ c.name = d.children[d.fields.name].text
        /\ c.chunk_type = <<kind>>
        /\ IF kind = "component"
           THEN c.ecs_component /\ "ecs_component" \in c.semantic_labels
                                /\ <<"Component">> \in c.extends
           ELSE c.ecs_system /\ "ecs_system" \in c.semantic_labels
                             /\ <<"System">> \in c.extends
        /\ c.content = outer.text
        /\ c.start_line = outer.start_point[1] + 1
        /\ c.end_line = outer.end_point[1] + 1

C16_FactoryDeclaratorYieldsOneChunk ==
    parse_pc = "returned" =>
        LET decls == FindNodesByType(root_node, "lexical_declaration")
                        \o FindNodesByType(root_node, "variable_declaration")
        IN  \A n \in 1..Len(decls) : \A d \in Range(decls[n].children) :
                LET named == {k \in 1..Len(parse_chunks) :
                                /\ d.type = "variable_declarator"
                                /\ d.fields.name # 0
                                /\ parse_chunks[k].name = d.children[d.fields.name].text}
                IN  /\ IsFactoryDeclarator(d, "createComponent") =>
                          /\ Cardinality(named) = 1
                          /\ \A k \in named :
                                IsFactoryChunkOf(parse_chunks[k], decls[n], d, "component")
                    /\ (IsFactoryDeclarator(d, "createSystem")
                            /\ ~IsFactoryDeclarator(d, "createComponent")) =>
                          /\ Cardinality(named) = 1
                          /\ \A k \in named :
                                IsFactoryChunkOf(parse_chunks[k], decls[n], d, "system")

----------------------------------------------------------------------------
(* C21: when the source file cannot be read, no error escapes the          *)
(* optimizer.  A merge still yields the merged chunk: its content is the   *)
(* content of the first chunk of the pair (ordered by start_line), a       *)
(* newline, and the content of the second, and every other field is what   *)
(* a merge gives when the file is read.  An expansion returns the original *)
(* chunk object, unchanged.  The remaining chunks of the file are still    *)
(* processed: when the scan of a file ends, every chunk of the file went   *)
(* into an output chunk.                                                   *)
FallbackMergeOf(m, x, y) ==
    /\ x.start_line <= y.start_line
    /\ m.content = x.content \o Newline \o y.content
    /\ m.chunk_type = x.chunk_type \o <<"_group">>
    /\ m.name = x.name \o <<"_","a","n","d","_">> \o y.name
    /\ m.start_line = x.start_line
    /\ m.end_line = y.end_line
    /\ m.file_path = x.file_path
    /\ m.language = x.language
    /\ m.class_name = None
    /\ Range(m.imports) = Range(x.imports) \cup Range(y.imports)
    /\ Len(m.imports) = Cardinality(Range(m.imports))
    /\ m.calls = x.calls \cup y.calls
    /\ m.extends = x.extends \cup y.extends
    /\ m.implements = x.implements \cup y.implements
    /\ m.uses_types = x.uses_types \cup y.uses_types
    /\ m.semantic_labels = x.semantic_labels \cup y.semantic_labels \cup {"merged_chunk"}
    /\ m.ecs_component = (x.ecs_component \/ y.ecs_component)
    /\ m.ecs_system = (x.ecs_system \/ y.ecs_system)
    /\ m.webxr_api_usage = x.webxr_api_usage \cup y.webxr_api_usage
    /\ m.three_js_usage = x.three_js_usage \cup y.three_js_usage
    /\ m.metadata = <<2, <<x.name, y.name>> >>

C21_ReadFailureFallback ==
    /\ \A k \in 1..Len(OutList) :
            ~OutProv[k].file_ok =>
                IF OutProv[k].kind = "merged"
                THEN LET a == orig[OutProv[k].src[1]]
                         b == orig[OutProv[k].src[2]]
                         m == heap[OutList[k]]
                     IN  /\ OutList[k] > Len(orig)
                         /\ FallbackMergeOf(m, a, b) \/ FallbackMergeOf(m, b, a)
                ELSE /\ OutProv[k].kind = "expanded"
                     /\ OutList[k] = OutProv[k].src[1]
                     /\ heap[OutList[k]] = orig[OutList[k]]
    /\ LoopEnded =>
            /\ Len(file_optimized) = Len(file_prov)
            /\ \A k \in 1..Len(FileChunks) : UsesOf(FileChunks[k], file_prov) # {}

\* the file could not be read for a merge nor for the expansion after it:
\* the scan of three chunks ended with the merged chunk and the small chunk
C21_Witness ==
    /\ LoopEnded
    /\ Len(FileChunks) = 3
    /\ \E k1, k2 \in 1..Len(file_prov) :
            /\ k1 < k2
            /\ file_prov[k1].kind = "merged" /\ ~file_prov[k1].file_ok
            /\ file_prov[k2].kind = "expanded" /\ ~file_prov[k2].file_ok
            /\ orig[file_prov[k1].src[1]].content # orig[file_prov[k1].src[2]].content


----------------------------------------------------------------------------
(* C22: the optimizer terminates on every finite chunk list.  Every        *)
(* iteration of the loop of _optimize_file_chunks (skip, merge, expand,    *)
(* oversized, in-band) raises the scan index by exactly one and leaves the *)
(* list alone, the index never passes n, the number of chunks of the file, *)
(* so the loop ends after exactly n iterations; and optimize_chunks        *)
(* returns.                                                                *)
C22_ScanTerminates ==
    /\ [](pc = "scan" => i <= Len(FileChunks))
    /\ [][(pc = "scan" /\ pc' = "scan") =>
            /\ i < Len(FileChunks)
            /\ i' = i + 1
            /\ by_file' = by_file
            /\ fidx' = fidx]_vars
    /\ [][(pc = "scan" /\ pc' # "scan") => i = Len(FileChunks)]_vars
    /\ <>(pc = "done")

\* the loop ended on a file of three chunks after three iterations: a merge,
\* the skip of the merged neighbour, and one more chunk
C22_Witness ==
    /\ LoopEnded
    /\ Len(FileChunks) = 3
    /\ i = 3
    /\ Len(file_prov) = 2
    /\ file_prov[1].kind = "merged"


----------------------------------------------------------------------------
(* C23: for chunks of a single file with pairwise distinct start_line,     *)
(* optimize_chunks returns the same output list for every permutation of   *)
(* the input list: the same chunks are merged, expanded, labelled or kept, *)
(* in the same order, and (the file being read or not at the same steps)   *)
(* the output chunks are equal field by field.                             *)
SingleFile == \A j, k \in 1..Len(orig) : orig[j].file_path = orig[k].file_path

DistinctStarts ==
    \A j, k \in 1..Len(orig) : j # k => orig[j].start_line # orig[k].start_line

\* the input list permuted by p
Permuted(p) == [j \in 1..Len(chunks) |-> chunks[p[j]]]

\* what optimize_chunks does with the chunks of one file given as the list ids
StepsOn(ids) == OptimizeFileChunks(orig, SortByStartLine(orig, ids), 0, {})

C23_PermutationInvariant ==
    (pc = "done" /\ Len(chunks) > 0 /\ SingleFile /\ DistinctStarts) =>
        \A p \in Permutations(1..Len(chunks)) :
            LET steps == StepsOn(Permuted(p))
            IN  /\ Len(steps) = Len(optimized)
                /\ \A k \in 1..Len(steps) :
                      /\ steps[k].kind = prov[k].kind
                      /\ steps[k].src = prov[k].src
                      /\ OutputChunk(orig, steps[k], prov[k].file_ok,
                                     total_lines[orig[1].file_path],
                                     heap[optimized[k]].imports) = heap[optimized[k]]
                      /\ steps[k].kind \in {"large", "perfect"} => optimized[k] = steps[k].src[1]

\* three chunks with distinct start lines were given in descending order;
\* two of them were merged
C23_Witness ==
    /\ pc = "done"
    /\ Len(chunks) = 3
    /\ SingleFile
    /\ orig[chunks[1]].start_line > orig[chunks[2]].start_line
    /\ orig[chunks[2]].start_line > orig[chunks[3]].start_line
    /\ \E k \in 1..Len(prov) : prov[k].kind = "merged"
    /\ Len(optimized) = 2


----------------------------------------------------------------------------
(* C24: every chunk built by the merge path or the expand path owns its    *)
(* collections (imports, calls, extends, implements, uses_types, the       *)
(* API-usage sets, semantic_labels): adding an element to such a           *)
(* collection of an output chunk changes no collection of an input chunk.  *)
C24_OutputCollectionsFresh ==
    [][(pc = "done" /\ pc' = "used") =>
            \A j \in 1..Len(orig) : heap'[j] = heap[j]]_vars

----------------------------------------------------------------------------
(* C25: factory chunks (chunk_type 'component' or 'system') come only from *)
(* variable declarations at the top level of the file, direct children of  *)
(* the root or of a top-level export statement: every factory chunk is     *)
(* named by a createComponent / createSystem declarator of such a          *)
(* declaration, and a declaration nested in a function, method or class    *)
(* body gives no chunk, so there are no more factory chunks than top-level *)
(* factory declarators.                                                    *)
IsVariableDeclaration(node) ==
    node.type \in {"lexical_declaration", "variable_declaration"}

\* the variable declarations at the top level of the file
TopLevelDeclarations(root) ==
    {c \in Range(root.children) : IsVariableDeclaration(c)}
        \cup UNION { {c \in Range(e.children) : IsVariableDeclaration(c)} :
                        e \in ChildrenOfType(root, "export_statement") }

TopLevelFactoryDeclarators(root) ==
    UNION { {d \in Range(decl.children) :
                \/ IsFactoryDeclarator(d, "createComponent")
                \/ IsFactoryDeclarator(d, "createSystem")} :
            decl \in TopLevelDeclarations(root) }

FactoryChunks ==
    {k \in 1..Len(parse_chunks) :
        parse_chunks[k].chunk_type \in {<<"component">>, <<"system">>}}

C25_FactoryChunksOnlyTopLevel ==
    parse_pc = "returned" =>
        /\ \A k \in FactoryChunks :
                \E d \in TopLevelFactoryDeclarators(root_node) :
                    parse_chunks[k].name = d.children[d.fields.name].text
        /\ Cardinality(FactoryChunks) <= Cardinality(TopLevelFactoryDeclarators(root_node))


----------------------------------------------------------------------------
(* C26: over any sequence of add_chunks calls on one store no two chunks   *)
(* get the same id: the id built from the source tag, the path from 'src'  *)
(* on, chunk_type, name, start_line and the index in the batch differs     *)
(* from the id of every other chunk given to the store, in the same call   *)
(* or in another one.                                                      *)
C26_IdsUniqueAcrossCalls ==
    \A j, k \in 1..Len(issued) : j # k => issued[j].id # issued[k].id


----------------------------------------------------------------------------
(* C27: every merge pairs the small chunk under the scan index with its    *)
(* immediate successor.  Whenever the scan stands on an index i whose      *)
(* predecessor is unconsumed, _should_merge rejects the pair (i-1, i), as  *)
(* it did when i-1 was scanned; so no merge with the previous chunk        *)
(* happens, and the step that appends a merged chunk built it from the     *)
(* chunks at i and i+1 and consumed exactly these two.                     *)
C27_MergeAlwaysWithSuccessor ==
    /\ [](( /\ pc = "scan"
            /\ 0 < i /\ i < Len(FileChunks)
            /\ (i - 1) \notin consumed )
          => ~ShouldMerge(ChunkAt(i - 1), ChunkAt(i)))
    /\ [][( /\ pc = "scan" /\ pc' = "scan"
            /\ Len(file_prov') = Len(file_prov) + 1
            /\ file_prov'[Len(file_prov')].kind = "merged" )
          => /\ i + 1 < Len(FileChunks)
             /\ file_prov'[Len(file_prov')].src = <<FileChunks[i + 1], FileChunks[i + 2]>>
             /\ consumed' = consumed \cup {i, i + 1}]_vars

\* a small chunk was expanded and left unconsumed, and the small chunk after
\* it was merged with its successor
C27_Witness ==
    /\ LoopEnded
    /\ Len(FileChunks) = 3
    /\ Len(file_prov) = 2
    /\ file_prov[1].kind = "expanded"
    /\ file_prov[2].kind = "merged"
    /\ 0 \notin consumed
    /\ file_prov[2].src = <<FileChunks[2], FileChunks[3]>>


----------------------------------------------------------------------------
(* C28 as stated: within one file, for input chunks with pairwise disjoint *)
(* line ranges, the output list is in non-decreasing start_line order: no  *)
(* chunk starts before a chunk that precedes it in the output.             *)
C28_OutputNonDecreasing ==
    (LoopEnded /\ InputsDisjoint) =>
        \A p, q \in 1..Len(file_optimized) :
            p < q => heap[file_optimized[p]].start_line <= heap[file_optimized[q]].start_line

(* C28 amended: within one file, for input chunks with pairwise disjoint   *)
(* line ranges, the output chunks come in the order of the chunks they     *)
(* were built from, and no chunk starts before a chunk that precedes it in *)
(* the output, except that an expanded chunk may start before a merged     *)
(* chunk, or a small chunk left unexpanded because its file could not be   *)
(* read, that precedes it (the context added before the small chunk        *)
(* reaches back over the preceding chunk).                                 *)
C28_NonDecreasingButExpandedAfterMerged ==
    (LoopEnded /\ InputsDisjoint) =>
        \A p, q \in 1..Len(file_optimized) :
            p < q =>
                /\ orig[file_prov[p].src[1]].start_line < orig[file_prov[q].src[1]].start_line
                /\ \/ heap[file_optimized[p]].start_line <= heap[file_optimized[q]].start_line
                   \/ /\ \/ file_prov[p].kind = "merged"
                         \/ file_prov[p].kind = "expanded" /\ ~file_prov[p].file_ok
                      /\ file_prov[q].kind = "expanded"
                      /\ file_prov[q].file_ok

\* two small chunks were merged and the small chunk after them was expanded
\* to a range that starts before the merged chunk
C28_Witness ==
    /\ LoopEnded
    /\ InputsDisjoint
    /\ Len(file_optimized) = 2
    /\ file_prov[1].kind = "merged"
    /\ file_prov[2].kind = "expanded"
    /\ heap[file_optimized[2]].start_line < heap[file_optimized[1]].start_line


----------------------------------------------------------------------------
(* C29: a class chunk's extends and implements sets contain only names     *)
(* taken from that class's own heritage clause; the heritage clauses of    *)
(* classes declared inside its body contribute nothing to the chunk of the *)
(* outer class.                                                            *)

\* the names of the extends clauses of a class declaration's own heritage
OwnExtends(class_node) ==
    UNION { ExtendsOfChild(child) : child \in ExtendsChildren(class_node) }

\* the type names of the implements clauses of a class declaration's own heritage
OwnImplements(class_node) ==
    UNION { UNION { LET types == FindNodesByType(ic, "type_identifier")
                    IN  {types[k].text : k \in 1..Len(types)} :
                        ic \in ChildrenOfType(h, "implements_clause") } :
                h \in ChildrenOfType(class_node, "class_heritage") }

C29_HeritageOnlyFromOwnClause ==
    parse_pc = "returned" =>
        LET classes == FindNodesByType(root_node, "class_declaration")
        IN  \A j \in 1..Len(classes) :
                /\ parse_chunks[j].chunk_type = <<"class">>
                /\ parse_chunks[j].start_line = classes[j].start_point[1] + 1
                /\ parse_chunks[j].extends \subseteq OwnExtends(classes[j])
                /\ parse_chunks[j].implements \subseteq OwnImplements(classes[j])

\* the same property for the trees other than the one with a class declared
\* inside a method of another class
C29_HoldsWithoutNestedClasses ==
    root_node # TreeNestedClass => C29_HeritageOnlyFromOwnClause


----------------------------------------------------------------------------
(* C30: optimize_chunks leaves its argument intact: the caller's list      *)
(* keeps its length and order, and no field of an input chunk is modified, *)
(* except that 'large_chunk' is added to the semantic_labels of the input  *)
(* chunks of more than MAX_CHUNK_SIZE lines.                               *)
C30_ArgumentIntact ==
    /\ chunks = [j \in 1..Len(orig) |-> j]
    /\ Len(heap) >= Len(orig)
    /\ \A j \in 1..Len(orig) :
            LET labelled == [orig[j] EXCEPT !.semantic_labels = @ \cup {"large_chunk"}]
            IN  IF Size(orig[j]) > MAX_CHUNK_SIZE
                THEN /\ heap[j] \in {orig[j], labelled}
                     /\ pc = "done" => heap[j] = labelled
                ELSE heap[j] = orig[j]

\* a call returned whose list was not in start_line order within a file and
\* held a chunk of more than MAX_CHUNK_SIZE lines, now labelled; a merged or
\* an expanded chunk was built from its other chunks
C30_Witness ==
    /\ pc = "done"
    /\ \E j, k \in 1..Len(chunks) :
            /\ j < k
            /\ orig[j].file_path = orig[k].file_path
            /\ orig[j].start_line > orig[k].start_line
    /\ \E j \in 1..Len(orig) :
            /\ Size(orig[j]) > MAX_CHUNK_SIZE
            /\ "large_chunk" \notin orig[j].semantic_labels
            /\ "large_chunk" \in heap[j].semantic_labels
    /\ \E k \in 1..Len(prov) :
            \/ prov[k].kind = "merged"
            \/ prov[k].kind = "expanded" /\ prov[k].file_ok


====
